---------------------------- MODULE Spec2Model ----------------------------
(***************************************************************************)
(* Model of the therapy-sentence pipeline of backend/app/agents:           *)
(* run_pipeline (pipeline.py), validate_sentences (tools/validate.py) and  *)
(* the helpers they call.                                                  *)
(*                                                                         *)
(* Text is a sequence of characters.  A character is a one-element string; *)
(* a composed Hangul syllable is written by its romanisation ("jwo" is the *)
(* syllable JWO of "give me"), a bare jamo by a name ending in _j ("B_j"   *)
(* is the jamo BIEUP), a Latin letter by the letter and an underscore, and *)
(* every other character by itself.                                        *)
(***************************************************************************)
EXTENDS Integers, Sequences, FiniteSets, TLC

(***************************************************************************)
(* Bounds of the model.                                                    *)
(***************************************************************************)
MaxWords    == 4   \* longest generated sentence, in tokens
MaxBatch    == 3   \* most candidates one generate call delivers
MaxAttempts == 2   \* largest max_attempts argument of run_pipeline
MaxCount    == 2   \* largest request.count
MaxItems    == 2   \* longest candidate list handed to validate_sentences
MaxSyllables == 3  \* longest word handed to has_phoneme_at_position
MaxValidated == 3  \* longest list handed to score_sentences
MaxMatched  == 5   \* most matched words of a scored sentence
MaxScored   == 4   \* longest list handed to diversify_results
MaxSelect   == 3   \* largest count argument of diversify_results
MaxSimilar  == 2   \* largest max_similar argument of diversify_results
LongCount   == 6   \* count argument for the long lists of diversify_results
LongValidated == 12 \* length of the long list given to score_sentences

(***************************************************************************)
(* Character classes.                                                      *)
(***************************************************************************)
Whitespace == {" "}

\* string.punctuation (the grave accent is written "backtick")
Punctuation ==
  {"!", "\"", "#", "$", "%", "&", "'", "(", ")", "*", "+", ",", "-", ".",
   "/", ":", ";", "<", "=", ">", "?", "@", "[", "\\", "]", "^", "_", "backtick",
   "{", "|", "}", "~"}

\* <<upper-case letter, lower-case letter>>
LatinPairs ==
  {<<"A_", "a_">>, <<"E_", "e_">>, <<"G_", "g_">>, <<"H_", "h_">>,
   <<"I_", "i_">>, <<"L_", "l_">>, <<"M_", "m_">>, <<"N_", "n_">>,
   <<"O_", "o_">>, <<"P_", "p_">>, <<"R_", "r_">>, <<"S_", "s_">>,
   <<"T_", "t_">>, <<"W_", "w_">>, <<"Y_", "y_">>}
UpperLatin == {p[1] : p \in LatinPairs}
LowerLatin == {p[2] : p \in LatinPairs}

\* Hangul compatibility jamo: consonants, then vowels
Jamo ==
  {"G_j", "N_j", "D_j", "R_j", "M_j", "B_j", "S_j", "SS_j", "NG_j", "J_j",
   "a_j", "eo_j", "eu_j", "i_j", "wo_j", "yeo_j", "yo_j"}

\* the class of composed Hangul syllables (U+AC00..U+D7A3): every character
\* that is none of the above
NonHangul == Whitespace \cup Punctuation \cup LowerLatin \cup UpperLatin \cup Jamo

IsHangul(c) == c \notin NonHangul

\* \w of the re module (str patterns): letters, digits and the underscore
IsWordChar(c) ==
  \/ IsHangul(c)
  \/ c \in LowerLatin \cup UpperLatin \cup Jamo
  \/ c = "_"

\* str.isalpha on one character
IsAlpha(c) == IsHangul(c) \/ c \in LowerLatin \cup UpperLatin \cup Jamo

\* str.lower and str.upper on one character
LowerChar(c) ==
  IF c \in UpperLatin THEN (CHOOSE p \in LatinPairs : p[1] = c)[2] ELSE c

UpperChar(c) ==
  IF c \in LowerLatin THEN (CHOOSE p \in LatinPairs : p[2] = c)[1] ELSE c

(***************************************************************************)
(* str methods.                                                            *)
(***************************************************************************)
Lower(s) == [i \in 1..Len(s) |-> LowerChar(s[i])]

Upper(s) == [i \in 1..Len(s) |-> UpperChar(s[i])]

StartsWithAt(s, i, p) ==
  /\ i + Len(p) - 1 <= Len(s)
  /\ \A k \in 1..Len(p) : s[i + k - 1] = p[k]

EndsWith(s, p) ==
  /\ Len(p) <= Len(s)
  /\ \A k \in 1..Len(p) : s[Len(s) - Len(p) + k] = p[k]

RECURSIVE LStripChars(_, _)
LStripChars(s, cs) ==
  IF s # <<>> /\ Head(s) \in cs THEN LStripChars(Tail(s), cs) ELSE s

RECURSIVE RStripChars(_, _)
RStripChars(s, cs) ==
  IF s # <<>> /\ s[Len(s)] \in cs
  THEN RStripChars(SubSeq(s, 1, Len(s) - 1), cs)
  ELSE s

StripChars(s, cs) == RStripChars(LStripChars(s, cs), cs)

Strip(s) == StripChars(s, Whitespace)

\* str.split() without a separator: the maximal runs of non-whitespace
RECURSIVE SplitFrom(_, _)
SplitFrom(s, cur) ==
  IF s = <<>>
  THEN IF cur = <<>> THEN <<>> ELSE <<cur>>
  ELSE IF Head(s) \in Whitespace
       THEN IF cur = <<>>
            THEN SplitFrom(Tail(s), <<>>)
            ELSE <<cur>> \o SplitFrom(Tail(s), <<>>)
       ELSE SplitFrom(Tail(s), Append(cur, Head(s)))

Split(s) == SplitFrom(s, <<>>)

\* " ".join(tokens)
RECURSIVE Join(_)
Join(toks) ==
  IF toks = <<>> THEN <<>>
  ELSE IF Len(toks) = 1 THEN toks[1]
  ELSE toks[1] \o <<" ">> \o Join(Tail(toks))

\* len(re.findall(re.escape(p), s)): the occurrences of p in s, taken from the
\* left without overlap
RECURSIVE CountFrom(_, _, _)
CountFrom(occurrences, from, length) ==
  LET later == {i \in occurrences : i >= from}
  IN IF later = {} THEN 0
     ELSE 1 + CountFrom(occurrences,
                (CHOOSE i \in later : \A j \in later : i <= j) + length, length)

FindAllCount(p, s) ==
  CountFrom({i \in 1..(Len(s) - Len(p) + 1) : StartsWithAt(s, i, p)}, 1, Len(p))

RECURSIVE SumSeq(_)
SumSeq(ns) == IF ns = <<>> THEN 0 ELSE Head(ns) + SumSeq(Tail(ns))

(***************************************************************************)
(* api/v2/schemas.py: the request.                                         *)
(***************************************************************************)
NoneVal == "None"

KO == "ko"
EN == "en"

MINIMAL_PAIRS   == "minimal_pairs"
CORE_VOCABULARY == "core_vocabulary"

DifficultyLevel == {"easy", "medium", "hard"}

(***************************************************************************)
(* services/phoneme/korean.py                                              *)
(***************************************************************************)
\* hgtk.letter.decompose on the syllables of the vocabulary:
\* <<onset, nucleus, coda>>, coda "" when there is none
HangulTable ==
  [ra    |-> <<"R_j", "a_j", "">>,
   myeon |-> <<"M_j", "yeo_j", "N_j">>,
   i     |-> <<"NG_j", "i_j", "">>,
   geo   |-> <<"G_j", "eo_j", "">>,
   reul  |-> <<"R_j", "eu_j", "R_j">>,
   jwo   |-> <<"J_j", "wo_j", "">>,
   mat   |-> <<"M_j", "a_j", "S_j">>,
   iss   |-> <<"NG_j", "i_j", "SS_j">>,
   eo    |-> <<"NG_j", "eo_j", "">>,
   yo    |-> <<"NG_j", "yo_j", "">>,
   eom   |-> <<"NG_j", "eo_j", "M_j">>,
   ma    |-> <<"M_j", "a_j", "">>,
   na    |-> <<"N_j", "a_j", "">>,
   gang  |-> <<"G_j", "a_j", "NG_j">>,
   ang   |-> <<"NG_j", "a_j", "NG_j">>]

\* decompose_hangul(char) is None exactly when this is false
IsDecomposable(char) == char \in DOMAIN HangulTable

decompose_hangul(char) == HangulTable[char]

\* a variant without the special case of the onset filler
RECURSIVE has_phoneme_at_position_plain(_, _, _)
has_phoneme_at_position_plain(word, phoneme, position) ==
  IF word = <<>> THEN FALSE
  ELSE LET rest == has_phoneme_at_position_plain(Tail(word), phoneme, position)
       IN IF ~IsDecomposable(Head(word)) THEN rest
          ELSE LET decomposed == decompose_hangul(Head(word))
                   cho  == <<decomposed[1]>>
                   jung == <<decomposed[2]>>
                   jong == IF decomposed[3] = "" THEN <<>> ELSE <<decomposed[3]>>
               IN IF position = "onset" /\ cho = phoneme THEN TRUE
                  ELSE IF position = "nucleus" /\ jung = phoneme THEN TRUE
                  ELSE IF position = "coda" /\ jong = phoneme THEN TRUE
                  ELSE IF position = "any" /\ phoneme \in {cho, jung, jong}
                       THEN TRUE
                  ELSE rest

RECURSIVE has_phoneme_at_position(_, _, _)
has_phoneme_at_position(word, phoneme, position) ==
  IF word = <<>> THEN FALSE
  ELSE LET rest == has_phoneme_at_position(Tail(word), phoneme, position)
       IN IF ~IsDecomposable(Head(word)) THEN rest
          ELSE LET decomposed == decompose_hangul(Head(word))
                   cho  == <<decomposed[1]>>
                   jung == <<decomposed[2]>>
                   jong == IF decomposed[3] = "" THEN <<>> ELSE <<decomposed[3]>>
               IN IF phoneme = <<"NG_j">>
                  THEN IF position = "onset" THEN FALSE
                       ELSE IF position = "coda" /\ jong = <<"NG_j">> THEN TRUE
                       ELSE IF position = "any" /\ jong = <<"NG_j">> THEN TRUE
                       ELSE rest
                  ELSE IF position = "onset" /\ cho = phoneme THEN TRUE
                       ELSE IF position = "nucleus" /\ jung = phoneme THEN TRUE
                       ELSE IF position = "coda" /\ jong = phoneme THEN TRUE
                       ELSE IF position = "any" /\ phoneme \in {cho, jung, jong}
                            THEN TRUE
                       ELSE rest

\* a variant that lists a word once for each of its qualifying syllables
RECURSIVE MatchesPerSyllable(_, _, _)
MatchesPerSyllable(words, phoneme, position) ==
  IF words = <<>> THEN <<>>
  ELSE LET w == Head(words)
           hits == {j \in 1..Len(w) :
                      has_phoneme_at_position(<<w[j]>>, phoneme, position)}
       IN [k \in 1..Cardinality(hits) |-> w]
          \o MatchesPerSyllable(Tail(words), phoneme, position)

find_phoneme_matches_per_syllable(sentence, phoneme, position, min_occurrences) ==
  LET matched == MatchesPerSyllable(Split(sentence), phoneme, position)
  IN [matched_words |-> matched,
      count         |-> Len(matched),
      meets_minimum |-> Len(matched) >= min_occurrences]

find_phoneme_matches(sentence, phoneme, position, min_occurrences) ==
  LET words == Split(sentence)
      matched == SelectSeq(words,
                   LAMBDA w : has_phoneme_at_position(w, phoneme, position))
  IN [matched_words |-> matched,
      count         |-> Len(matched),
      meets_minimum |-> Len(matched) >= min_occurrences]

(***************************************************************************)
(* services/phoneme/english.py                                             *)
(***************************************************************************)
\* pronouncing.phones_for_word on the words of the vocabulary, stress digits
\* removed; a phoneme is a text of upper-case letters.  Every word of the
\* vocabulary is in the dictionary, so the g2p fallback is never taken.
CmuDict ==
  {<< <<"i_">>,                   << <<"A_", "Y_">> >> >>,
   << <<"w_", "a_", "n_", "t_">>, << <<"W_">>, <<"A_", "A_">>, <<"N_">>, <<"T_">> >> >>,
   << <<"m_", "o_", "r_", "e_">>, << <<"M_">>, <<"A_", "O_">>, <<"R_">> >> >>,
   << <<"g_", "o_">>,             << <<"G_">>, <<"O_", "W_">> >> >>}

get_phonemes(word) ==
  LET clean_word == Strip(Lower(word))
  IN IF word = <<>> \/ clean_word = <<>> THEN <<>>
     ELSE IF \E e \in CmuDict : e[1] = clean_word
          THEN (CHOOSE e \in CmuDict : e[1] = clean_word)[2]
          ELSE <<>>

has_target_phoneme(word, target) ==
  \E k \in 1..Len(get_phonemes(word)) : get_phonemes(word)[k] = Upper(target)

find_phoneme_matches_en(sentence, target, min_occurrences) ==
  LET words == Split(sentence)
      clean(w) == SelectSeq(w, IsAlpha)
      hits == SelectSeq(words,
                LAMBDA w : clean(w) # <<>> /\ has_target_phoneme(clean(w), target))
      matched == [k \in 1..Len(hits) |-> Lower(clean(hits[k]))]
  IN [matched_words |-> matched,
      count         |-> Len(matched),
      meets_minimum |-> Len(matched) >= min_occurrences]

(***************************************************************************)
(* services/lexical/core_vocabulary.py                                     *)
(***************************************************************************)
DEFAULT_CORE_WORDS ==
  [ko |-> << <<"deo">>, <<"tto">>, <<"a", "ni">>, <<"ne">>, <<"silh", "eo">>,
             <<"jwo">>, <<"i", "geo">>, <<"jeo", "geo">>, <<"mwo">>,
             <<"eo", "di">> >>,
   en |-> << <<"m_", "o_", "r_", "e_">>, <<"w_", "a_", "n_", "t_">>,
             <<"n_", "o_">>, <<"y_", "e_", "s_">>,
             <<"h_", "e_", "l_", "p_">>, <<"g_", "o_">>,
             <<"s_", "t_", "o_", "p_">>, <<"m_", "y_">>,
             <<"t_", "h_", "a_", "t_">>, <<"w_", "h_", "a_", "t_">> >>]

RECURSIVE NormalizeFrom(_, _)
NormalizeFrom(core_words, cleaned) ==
  IF core_words = <<>> THEN cleaned
  ELSE LET cleaned_word == Strip(Head(core_words))
       IN IF cleaned_word = <<>> \/ \E k \in 1..Len(cleaned) : cleaned[k] = cleaned_word
          THEN NormalizeFrom(Tail(core_words), cleaned)
          ELSE NormalizeFrom(Tail(core_words), Append(cleaned, cleaned_word))

\* core_words None is written <<>>: the code tests "not core_words"
normalize_core_words(core_words) ==
  IF core_words = <<>> THEN <<>>
  ELSE NormalizeFrom(core_words, <<>>)

resolve_core_words(language, core_words) ==
  LET cleaned == normalize_core_words(core_words)
  IN IF cleaned # <<>> THEN cleaned ELSE DEFAULT_CORE_WORDS[language]

(***************************************************************************)
(* agents/tools/validate.py                                                *)
(***************************************************************************)
\* <<representative stem, its surface forms>>, in dictionary order
_KO_STEM_GROUPS ==
  << << <<"mat", "iss">>,  << <<"mat", "iss">> >> >>,
     << <<"mat", "eops">>, << <<"mat", "eops">> >> >>,
     << <<"ye", "ppeu">>,  << <<"ye", "ppeu">>, <<"ye", "ppeun">>, <<"ye", "ppeo">> >> >>,
     << <<"i", "ppeu">>,   << <<"i", "ppeu">>, <<"i", "ppeun">>, <<"i", "ppeo">> >> >>,
     << <<"joh">>,         << <<"joh">> >> >>,
     << <<"silh">>,        << <<"silh">> >> >>,
     << <<"keu">>,         << <<"keu">>, <<"keun">>, <<"keo">> >> >>,
     << <<"jak">>,         << <<"jak">> >> >>,
     << <<"manh">>,        << <<"manh">> >> >>,
     << <<"jeok">>,        << <<"jeok">> >> >>,
     << <<"nop">>,         << <<"nop">> >> >>,
     << <<"naj">>,         << <<"naj">> >> >>,
     << <<"gil">>,         << <<"gil">> >> >>,
     << <<"jjalp">>,       << <<"jjalp">> >> >>,
     << <<"neolp">>,       << <<"neolp">> >> >>,
     << <<"jop">>,         << <<"jop">> >> >>,
     << <<"ppa", "reu">>,  << <<"ppa", "reu">>, <<"ppa", "reun">>, <<"ppal", "la">> >> >>,
     << <<"neu", "ri">>,   << <<"neu", "ri">>, <<"neu", "rin">>, <<"neu", "ryeo">> >> >>,
     << <<"mu", "geop">>,  << <<"mu", "geop">>, <<"mu", "geo", "un">>, <<"mu", "geo", "wo">> >> >>,
     << <<"ga", "byeop">>, << <<"ga", "byeop">>, <<"ga", "byeo", "un">>, <<"ga", "byeo", "wo">> >> >>,
     << <<"tteu", "geop">>, << <<"tteu", "geop">>, <<"tteu", "geo", "un">>, <<"tteu", "geo", "wo">> >> >>,
     << <<"cha", "gap">>,  << <<"cha", "gap">>, <<"cha", "ga", "un">>, <<"cha", "ga", "wo">> >> >>,
     << <<"jae", "mi", "iss">>,  << <<"jae", "mi", "iss">> >> >>,
     << <<"jae", "mi", "eops">>, << <<"jae", "mi", "eops">> >> >>,
     << <<"gwi", "yeop">>, << <<"gwi", "yeop">>, <<"gwi", "yeo", "un">>, <<"gwi", "yeo", "wo">> >> >>,
     << <<"mu", "seop">>,  << <<"mu", "seop">>, <<"mu", "seo", "un">>, <<"mu", "seo", "wo">> >> >>,
     << <<"seul", "peu">>, << <<"seul", "peu">>, <<"seul", "peun">>, <<"seul", "peo">> >> >>,
     << <<"gi", "ppeu">>,  << <<"gi", "ppeu">>, <<"gi", "ppeun">>, <<"gi", "ppeo">> >> >> >>

\* the number of times a group adds its representative stem to the list
RECURSIVE VariantCount(_, _)
VariantCount(variants, text) ==
  IF variants = <<>> THEN 0
  ELSE FindAllCount(Head(variants), text) + VariantCount(Tail(variants), text)

StemCount(g, text) == VariantCount(_KO_STEM_GROUPS[g][2], text)

\* the stems in list order, as <<representative, occurrences>> per group found
_extract_korean_stems(text) ==
  [g \in 1..Len(_KO_STEM_GROUPS) |-> <<_KO_STEM_GROUPS[g][1], StemCount(g, text)>>]

\* the first stem, in dictionary order, that occurs twice or more; None is
\* written <<>> (the caller tests the truth value of the result)
_check_semantic_repetition(sentence, language) ==
  IF language # KO THEN <<>>
  ELSE LET stems == _extract_korean_stems(sentence)
           rep == {g \in 1..Len(stems) : stems[g][2] >= 2}
       IN IF rep = {} THEN <<>>
          ELSE stems[CHOOSE g \in rep : \A h \in rep : g <= h][1]

_KO_PREDICATE_ENDINGS ==
  { <<"yo">>, <<"eo">>, <<"a">>, <<"ya">>, <<"ji">>, <<"rae">>, <<"ja">>,
    <<"da">>, <<"ne">>, <<"na">>, <<"jwo">>, <<"bwa">>, <<"wo">>, <<"sseo">>,
    <<"hae">>, <<"ge">>, <<"go">>, <<"myeo">>, <<"myeon">>,
    <<"eo", "!">>, <<"a", "!">>, <<"ya", "!">>, <<"da", "!">>, <<"ji", "!">>,
    <<"rae", "!">>, <<"yo", "!">>, <<"ne", "!">>, <<"ja", "!">>,
    <<"eo", "?">>, <<"a", "?">>, <<"ya", "?">>, <<"ji", "?">>, <<"rae", "?">>,
    <<"yo", "?">>, <<"na", "?">>, <<"ni", "?">>,
    <<"eo", "~">>, <<"a", "~">>, <<"ya", "~">>, <<"da", "~">>, <<"yo", "~">>,
    <<"seup", "ni", "da">>, <<"B_j", "ni", "da">>, <<"se", "yo">>,
    <<"syeo", "yo">>,
    <<"ni">>, <<"nya">>, <<"kka">> }

_check_has_predicate(sentence, language) ==
  IF language # KO THEN TRUE
  ELSE LET text == Strip(sentence)
           words == Split(text)
       IN \/ \E ending \in _KO_PREDICATE_ENDINGS : EndsWith(text, ending)
          \/ /\ words # <<>>
             /\ LET last_word == RStripChars(words[Len(words)], {"!", "?", "~", "."})
                IN \E ending \in _KO_PREDICATE_ENDINGS : EndsWith(last_word, ending)

_normalize_token(token, language) ==
  LET cleaned == StripChars(token, Punctuation)
  IN IF language = EN THEN Lower(cleaned) ELSE cleaned

_contains_core_word(words, core_words, language) ==
  IF core_words = <<>> THEN FALSE
  ELSE LET normalized_words ==
             {_normalize_token(words[k], language) :
                k \in {n \in 1..Len(words) : words[n] # <<>>}} \ {<<>>}
           normalized_core ==
             {_normalize_token(core_words[k], language) :
                k \in {n \in 1..Len(core_words) : core_words[n] # <<>>}} \ {<<>>}
       IN normalized_words \cap normalized_core # {}

\* the last position before j that holds no whitespace, 0 when there is none
RECURSIVE LastNonSpaceBefore(_, _)
LastNonSpaceBefore(s, j) ==
  IF j <= 1 THEN 0
  ELSE IF s[j - 1] \in Whitespace THEN LastNonSpaceBefore(s, j - 1)
  ELSE j - 1

\* re.search of  LEFT \s+ RIGHT \b  where LEFT ends at one of the positions
\* left_ends, in a character that is no whitespace, and RIGHT is one of the
\* texts rights, all of which end in a word character
SpacedMatch(s, left_ends, rights) ==
  \E j \in 2..Len(s) :
    /\ s[j - 1] \in Whitespace
    /\ \E r \in rights :
         /\ StartsWithAt(s, j, r)
         /\ LET e == j + Len(r) - 1
            IN e = Len(s) \/ ~IsWordChar(s[e + 1])
    /\ LastNonSpaceBefore(s, j) \in left_ends

\* (mwo|wae|eodi|nugu|igeo|jeogeo|geugeo|yeogi|geogi)\s+(ya|ni|nya|ji|jyo)\b
QuestionWords ==
  { <<"mwo">>, <<"wae">>, <<"eo", "di">>, <<"nu", "gu">>, <<"i", "geo">>,
    <<"jeo", "geo">>, <<"geu", "geo">>, <<"yeo", "gi">>, <<"geo", "gi">> }

SplitCopulas == { <<"ya">>, <<"ni">>, <<"nya">>, <<"ji">>, <<"jyo">> }

\* jwo(yo)?|jwoss(eo|eoyo)|jul(rae|ge|kka)|ju(ra|myeon|go|ji|seyo)
SplitGive ==
  { <<"jwo">>, <<"jwo", "yo">>,
    <<"jwoss", "eo">>, <<"jwoss", "eo", "yo">>,
    <<"jul", "rae">>, <<"jul", "ge">>, <<"jul", "kka">>,
    <<"ju", "ra">>, <<"ju", "myeon">>, <<"ju", "go">>, <<"ju", "ji">>,
    <<"ju", "se", "yo">> }

\* bwa(yo|jwo|ra|)
SplitLook == { <<"bwa">>, <<"bwa", "yo">>, <<"bwa", "jwo">>, <<"bwa", "ra">> }

_has_korean_spacing_antipattern(sentence) ==
  LET s == sentence
      AfterQuestionWord ==
        {i \in 1..Len(s) :
           \E q \in QuestionWords : i >= Len(q) /\ StartsWithAt(s, i - Len(q) + 1, q)}
      AfterHangul == {i \in 1..Len(s) : IsHangul(s[i])}
  IN \/ SpacedMatch(s, AfterQuestionWord, SplitCopulas)
     \/ SpacedMatch(s, AfterHangul, SplitGive)
     \/ SpacedMatch(s, AfterHangul, SplitLook)

\* fail_reason: None, or the reason text by its parts
NoReason == [code |-> NoneVal, detail |-> "", expected |-> 0, got |-> 0, stem |-> <<>>]

Reason(code, detail, expected, got, stem) ==
  [code |-> code, detail |-> detail, expected |-> expected, got |-> got,
   stem |-> stem]

\* request.target None
NoTarget == [phoneme |-> <<>>, position |-> NoneVal, minOccurrences |-> 0]

\* a variant that records no reason
ValidationResultWithoutReason(sentence, passed, matched_words, word_count, difficulty, fail_reason) ==
  [sentence |-> sentence, passed |-> passed, matched_words |-> matched_words,
   word_count |-> word_count, difficulty |-> difficulty,
   fail_reason |-> NoReason]

ValidationResult(sentence, passed, matched_words, word_count, difficulty, fail_reason) ==
  [sentence |-> sentence, passed |-> passed, matched_words |-> matched_words,
   word_count |-> word_count, difficulty |-> difficulty,
   fail_reason |-> fail_reason]

\* a variant that checks the target phoneme before it looks at the approach
ApproachCheckPhonemeFirst(sentence, words, word_count, difficulty, request) ==
  LET Fail(matched, reason) ==
        ValidationResult(sentence, FALSE, matched, word_count, difficulty, reason)
      Pass(matched) ==
        ValidationResult(sentence, TRUE, matched, word_count, difficulty, NoReason)
  IN IF request.target # NoTarget /\ request.target.phoneme # <<>>
     THEN LET match_result ==
                IF request.language = KO
                THEN find_phoneme_matches(sentence, request.target.phoneme,
                       request.target.position, request.target.minOccurrences)
                ELSE find_phoneme_matches_en(sentence, request.target.phoneme,
                       request.target.minOccurrences)
          IN IF ~match_result.meets_minimum
             THEN Fail(match_result.matched_words,
                       Reason("phoneme", "", request.target.minOccurrences,
                              match_result.count, <<>>))
             ELSE Pass(match_result.matched_words)
     ELSE IF request.therapyApproach = CORE_VOCABULARY
     THEN IF ~_contains_core_word(words,
                  resolve_core_words(request.language, request.core_words),
                  request.language)
          THEN Fail(<<>>, Reason("core_vocabulary", "missing core word", 0, 0, <<>>))
          ELSE Pass(<<>>)
     ELSE Pass(<<>>)

\* the checks of the therapy approach, made once the length, the repetition
\* and the predicate checks have passed
ApproachCheck(sentence, words, word_count, difficulty, request) ==
  LET Fail(matched, reason) ==
        ValidationResult(sentence, FALSE, matched, word_count, difficulty, reason)
      Pass(matched) ==
        ValidationResult(sentence, TRUE, matched, word_count, difficulty, NoReason)
  IN IF request.therapyApproach = CORE_VOCABULARY
     THEN IF request.language = KO /\ _has_korean_spacing_antipattern(sentence)
          THEN Fail(<<>>, Reason("core_vocabulary", "spacing anti-pattern", 0, 0, <<>>))
          ELSE IF ~_contains_core_word(words,
                     resolve_core_words(request.language, request.core_words),
                     request.language)
          THEN Fail(<<>>, Reason("core_vocabulary", "missing core word", 0, 0, <<>>))
          ELSE Pass(<<>>)
     ELSE IF request.target # NoTarget /\ request.target.phoneme # <<>>
     THEN LET match_result ==
                IF request.language = KO
                THEN find_phoneme_matches(sentence, request.target.phoneme,
                       request.target.position, request.target.minOccurrences)
                ELSE find_phoneme_matches_en(sentence, request.target.phoneme,
                       request.target.minOccurrences)
          IN IF ~match_result.meets_minimum
             THEN Fail(match_result.matched_words,
                       Reason("phoneme", "", request.target.minOccurrences,
                              match_result.count, <<>>))
             ELSE Pass(match_result.matched_words)
     ELSE Pass(<<>>)

\* a variant with a tolerance band of one word around sentenceLength
_validate_single_tolerant(sentence, request, difficulty) ==
  LET words == Split(Strip(sentence))
      word_count == Len(words)
      repeated_stem == _check_semantic_repetition(sentence, request.language)
      Fail(reason) ==
        ValidationResult(sentence, FALSE, <<>>, word_count, difficulty, reason)
  IN IF word_count < request.sentenceLength - 1 \/ word_count > request.sentenceLength + 1
     THEN Fail(Reason("word_count", "", request.sentenceLength, word_count, <<>>))
     ELSE IF repeated_stem # <<>>
     THEN Fail(Reason("semantic_repetition", "", 0, 0, repeated_stem))
     ELSE IF word_count <= 3 /\ ~_check_has_predicate(sentence, request.language)
     THEN Fail(Reason("no_predicate", "", 0, 0, <<>>))
     ELSE ApproachCheck(sentence, words, word_count, difficulty, request)

\* a variant that looks for a repeated stem before it counts the words
_validate_single_reordered(sentence, request, difficulty) ==
  LET words == Split(Strip(sentence))
      word_count == Len(words)
      repeated_stem == _check_semantic_repetition(sentence, request.language)
      Fail(reason) ==
        ValidationResult(sentence, FALSE, <<>>, word_count, difficulty, reason)
  IN IF repeated_stem # <<>>
     THEN Fail(Reason("semantic_repetition", "", 0, 0, repeated_stem))
     ELSE IF word_count # request.sentenceLength
     THEN Fail(Reason("word_count", "", request.sentenceLength, word_count, <<>>))
     ELSE IF word_count <= 3 /\ ~_check_has_predicate(sentence, request.language)
     THEN Fail(Reason("no_predicate", "", 0, 0, <<>>))
     ELSE ApproachCheck(sentence, words, word_count, difficulty, request)

_validate_single(sentence, request, difficulty) ==
  LET words == Split(Strip(sentence))
      word_count == Len(words)
      repeated_stem == _check_semantic_repetition(sentence, request.language)
      Fail(reason) ==
        ValidationResult(sentence, FALSE, <<>>, word_count, difficulty, reason)
  IN IF word_count # request.sentenceLength
     THEN Fail(Reason("word_count", "", request.sentenceLength, word_count, <<>>))
     ELSE IF repeated_stem # <<>>
     THEN Fail(Reason("semantic_repetition", "", 0, 0, repeated_stem))
     ELSE IF word_count <= 3 /\ ~_check_has_predicate(sentence, request.language)
     THEN Fail(Reason("no_predicate", "", 0, 0, <<>>))
     ELSE ApproachCheck(sentence, words, word_count, difficulty, request)

\* A candidate is [kind, sentence, difficulty]: kind "str" is a plain string,
\* "dict" a dict whose sentence is a str, "dict_no_sentence" a dict whose
\* sentence is missing or not a str, "other" any other object.  difficulty
\* is None, a str, or NonStr for any other value.
NonStr == "<non-str>"

\* a variant that drops a dict whose difficulty is not an allowed one
RECURSIVE NormalizedStrict(_)
NormalizedStrict(sentences) ==
  IF sentences = <<>> THEN <<>>
  ELSE LET item == Head(sentences)
           rest == NormalizedStrict(Tail(sentences))
       IN IF item.kind = "str"
          THEN <<[sentence |-> item.sentence, difficulty |-> NoneVal]>> \o rest
          ELSE IF item.kind = "dict" /\ item.difficulty \in DifficultyLevel \cup {NoneVal}
          THEN <<[sentence |-> item.sentence, difficulty |-> item.difficulty]>> \o rest
          ELSE rest

RECURSIVE Normalized(_)
Normalized(sentences) ==
  IF sentences = <<>> THEN <<>>
  ELSE LET item == Head(sentences)
           rest == Normalized(Tail(sentences))
       IN IF item.kind = "str"
          THEN <<[sentence |-> item.sentence, difficulty |-> NoneVal]>> \o rest
          ELSE IF item.kind = "dict"
          THEN <<[sentence |-> item.sentence,
                  difficulty |-> IF item.difficulty \in DifficultyLevel
                                 THEN item.difficulty ELSE NoneVal]>> \o rest
          ELSE rest

validate_sentences(sentences, request) ==
  LET normalized == Normalized(sentences)
  IN <<>> \o [k \in 1..Len(normalized) |->
                _validate_single(normalized[k].sentence, request,
                                 normalized[k].difficulty)]

\* a variant that lets every result through, passed or not
get_every_sentence(results) ==
  <<>> \o [k \in 1..Len(results) |->
                [sentence |-> results[k].sentence,
                 matched_words |-> results[k].matched_words,
                 word_count |-> results[k].word_count,
                 difficulty |-> results[k].difficulty]]

get_passed_sentences(results) ==
  LET passed == SelectSeq(results, LAMBDA r : r.passed)
  IN <<>> \o [k \in 1..Len(passed) |->
                [sentence |-> passed[k].sentence,
                 matched_words |-> passed[k].matched_words,
                 word_count |-> passed[k].word_count,
                 difficulty |-> passed[k].difficulty]]

(***************************************************************************)
(* services/corpus/korean_freq.py                                          *)
(***************************************************************************)
\* the frequency table: <<word, score>>
FrequencyData == { << <<"eom", "ma">>, 95 >>, << <<"ra", "myeon">>, 75 >> }

\* the longest prefix of the word that the table has, else 50
RECURSIVE PrefixFrequency(_, _)
PrefixFrequency(word, length) ==
  IF length = 0 THEN 50
  ELSE IF \E e \in FrequencyData : e[1] = SubSeq(word, 1, length)
       THEN (CHOOSE e \in FrequencyData : e[1] = SubSeq(word, 1, length))[2]
       ELSE PrefixFrequency(word, length - 1)

get_word_frequency(word) == PrefixFrequency(word, Len(word))

\* round(n / d, 2) in hundredths, n >= 0 and d > 0; a tie goes to the even
\* neighbour
Round2(n, d) ==
  LET q == (100 * n) \div d
      r == (100 * n) % d
  IN IF 2 * r > d \/ (2 * r = d /\ q % 2 = 1) THEN q + 1 ELSE q

\* the sentence score in hundredths, before any rounding: <<numerator, denominator>>
get_sentence_frequency_score(sentence) ==
  LET words == Split(sentence)
  IN IF words = <<>> THEN <<50, 1>>
     ELSE <<SumSeq([k \in 1..Len(words) |-> get_word_frequency(words[k])]),
            Len(words)>>

(***************************************************************************)
(* agents/tools/score.py.  Scores are kept in hundredths.                  *)
(***************************************************************************)
_KO_PARTICLES ==
  << <<"eun">>, <<"neun">>, <<"i">>, <<"ga">>, <<"eul">>, <<"reul">>, <<"e">>,
     <<"e", "seo">>, <<"eu", "ro">>, <<"ro">>, <<"wa">>, <<"gwa">>,
     <<"ha", "go">>, <<"i", "rang">>, <<"rang">>, <<"do">>, <<"man">>,
     <<"kka", "ji">>, <<"bu", "teo">>, <<"ui">>, <<"e", "ge">>,
     <<"han", "te">>, <<"kke">>, <<"bo", "da">> >>

_KO_NOUN_ENDINGS ==
  << <<"i">>, <<"ga">>, <<"eun">>, <<"neun">>, <<"eul">>, <<"reul">>, <<"e">>,
     <<"e", "seo">>, <<"eu", "ro">>, <<"ro">>, <<"wa">>, <<"gwa">>, <<"do">>,
     <<"man">>, <<"ui">>, <<"e", "ge">>, <<"han", "te">> >>

\* the first suffix of the list sorted by length, longest first, that the
\* word ends in and is longer than; <<>> when there is none
LongestSuffix(word, suffixes) ==
  LET hits == {k \in 1..Len(suffixes) :
                 EndsWith(word, suffixes[k]) /\ Len(word) > Len(suffixes[k])}
  IN IF hits = {} THEN <<>>
     ELSE suffixes[CHOOSE k \in hits :
            \A h \in hits : Len(suffixes[h]) <= Len(suffixes[k])]

\* the structure, one part per word ("N" and the particle, "V", "V" and the
\* closing mark, or "X"); for English the lower-cased sentence as one part
_extract_sentence_structure(sentence, language) ==
  IF language # KO THEN <<Lower(sentence)>>
  ELSE LET words == Split(Strip(sentence))
           part(word) ==
             IF LongestSuffix(word, _KO_PARTICLES) # <<>>
             THEN <<"N">> \o LongestSuffix(word, _KO_PARTICLES)
             ELSE IF \E c \in {"yo", "eo", "a", "ya", "da", "ji", "ne", "rae"} :
                       EndsWith(word, <<c>>)
             THEN <<"V">>
             ELSE IF \E c \in {"!", "?", "~"} : EndsWith(word, <<c>>)
             THEN <<"V", word[Len(word)]>>
             ELSE <<"X">>
       IN [k \in 1..Len(words) |-> part(words[k])]

_extract_nouns(sentence, language) ==
  IF language # KO
  THEN LET words == Split(Lower(sentence))
       IN {words[k] : k \in 1..Len(words)}
  ELSE LET words == Split(Strip(sentence))
           noun(word) ==
             SubSeq(word, 1, Len(word) - Len(LongestSuffix(word, _KO_NOUN_ENDINGS)))
       IN {noun(words[k]) : k \in {n \in 1..Len(words) : Len(noun(words[n])) >= 2}}

\* a variant that compares with every sentence scored so far
_calculate_diversity_penalty_unlimited(sentence, already_scored, language) ==
  IF already_scored = <<>> THEN 0
  ELSE LET current_structure == _extract_sentence_structure(sentence, language)
           current_nouns == _extract_nouns(sentence, language)
           one(scored) ==
             (IF current_structure = _extract_sentence_structure(scored.sentence, language)
              THEN 10 ELSE 0)
             + 5 * Cardinality(current_nouns \cap _extract_nouns(scored.sentence, language))
       IN SumSeq([k \in 1..Len(already_scored) |-> one(already_scored[k])])

\* the penalty in whole points
_calculate_diversity_penalty(sentence, already_scored, language) ==
  IF already_scored = <<>> THEN 0
  ELSE LET current_structure == _extract_sentence_structure(sentence, language)
           current_nouns == _extract_nouns(sentence, language)
           compare_count == IF Len(already_scored) < 10 THEN Len(already_scored) ELSE 10
           one(scored) ==
             (IF current_structure = _extract_sentence_structure(scored.sentence, language)
              THEN 10 ELSE 0)
             + 5 * Cardinality(current_nouns \cap _extract_nouns(scored.sentence, language))
       IN SumSeq([k \in 1..compare_count |-> one(already_scored[k])])

REQUEST == "request"

\* re.search of the patterns of the function in the sentence
MatchesFunction(function, s) ==
  LET Has(p) == \E i \in 1..Len(s) : StartsWithAt(s, i, p)
      \* LEFT \s* RIGHT
      HasSpaced(left, right) ==
        \E i \in 1..Len(s), j \in 1..Len(s) :
          /\ StartsWithAt(s, i, left)
          /\ i + Len(left) <= j
          /\ \A k \in (i + Len(left))..(j - 1) : s[k] \in Whitespace
          /\ StartsWithAt(s, j, right)
  IN /\ function = REQUEST
     /\ \/ Has(<<"jwo">>) \/ Has(<<"ju", "se", "yo">>) \/ Has(<<"jul", "rae">>)
        \/ Has(<<"sip", "eo">>) \/ Has(<<"sip", "eo", "yo">>)
        \/ HasSpaced(<<"ha", "go">>, <<"sip">>)
        \/ HasSpaced(<<"meok", "go">>, <<"sip">>)
        \/ HasSpaced(<<"gaj", "go">>, <<"sip">>)

\* the weights in tenths
BASE_SCORE_WEIGHTS ==
  [frequency |-> 4, function |-> 3, match_bonus |-> 2, length_fit |-> 1]

\* a variant that zeroes the unavailable weights without rescaling the rest
_get_score_weights_raw(request) ==
  LET w1 == IF request.language # KO
            THEN [BASE_SCORE_WEIGHTS EXCEPT !.frequency = 0, !.function = 0]
            ELSE IF request.communicativeFunction = NoneVal
            THEN [BASE_SCORE_WEIGHTS EXCEPT !.function = 0]
            ELSE BASE_SCORE_WEIGHTS
      w2 == IF request.therapyApproach = CORE_VOCABULARY
            THEN [w1 EXCEPT !.match_bonus = 0] ELSE w1
  IN <<w2, 10>>

\* the weights as <<tenths, total>>: a weight is tenths[key] / total
_get_score_weights(request) ==
  LET w1 == IF request.language # KO
            THEN [BASE_SCORE_WEIGHTS EXCEPT !.frequency = 0, !.function = 0]
            ELSE IF request.communicativeFunction = NoneVal
            THEN [BASE_SCORE_WEIGHTS EXCEPT !.function = 0]
            ELSE BASE_SCORE_WEIGHTS
      w2 == IF request.therapyApproach = CORE_VOCABULARY
            THEN [w1 EXCEPT !.match_bonus = 0] ELSE w1
      total == w2.frequency + w2.function + w2.match_bonus + w2.length_fit
  IN IF total <= 0
     THEN <<[frequency |-> 0, function |-> 0, match_bonus |-> 0, length_fit |-> 1], 1>>
     ELSE <<w2, total>>

\* a variant whose match bonus has no ceiling
_calculate_breakdown_uncapped(sentence, matched_words, request) ==
  LET f == get_sentence_frequency_score(sentence)
  IN [frequency   |-> IF request.language = KO THEN Round2(f[1], f[2]) ELSE 5000,
      function    |-> IF /\ request.communicativeFunction # NoneVal
                         /\ request.language = KO
                         /\ MatchesFunction(request.communicativeFunction, sentence)
                      THEN 10000 ELSE 0,
      match_bonus |-> 100 * Len(matched_words) * 30,
      length_fit  |-> 10000]

\* the breakdown in hundredths
_calculate_breakdown(sentence, matched_words, request) ==
  LET f == get_sentence_frequency_score(sentence)
  IN [frequency   |-> IF request.language = KO THEN Round2(f[1], f[2]) ELSE 5000,
      function    |-> IF /\ request.communicativeFunction # NoneVal
                         /\ request.language = KO
                         /\ MatchesFunction(request.communicativeFunction, sentence)
                      THEN 10000 ELSE 0,
      match_bonus |-> 100 * (IF Len(matched_words) * 30 < 100
                             THEN Len(matched_words) * 30 ELSE 100),
      length_fit  |-> 10000]

\* list.sort(key, reverse=True) where keys[k] is the key of items[k]: stable,
\* the larger key first
SortDesc(items, keys) ==
  LET rank(k) ==
        1 + Cardinality({h \in 1..Len(items) :
              \/ keys[h] > keys[k]
              \/ keys[h] = keys[k] /\ h < k})
  IN <<>> \o [p \in 1..Len(items) |->
                items[CHOOSE k \in 1..Len(items) : rank(k) = p]]

\* base_score times total weight, in hundredths
BaseScore(item, request) ==
  LET breakdown == _calculate_breakdown(item.sentence, item.matched_words, request)
      weights == _get_score_weights(request)[1]
  IN breakdown.frequency * weights.frequency
     + breakdown.function * weights.function
     + breakdown.match_bonus * weights.match_bonus
     + breakdown.length_fit * weights.length_fit

\* a variant that subtracts the whole penalty
PenalizedScoreUncapped(base_score, diversity_penalty, total) ==
  LET final_num == base_score - diversity_penalty * 100 * total
  IN IF final_num < 0 THEN 0 ELSE final_num

\* max(0, base_score - min(diversity_penalty, 50)), times total weight, in
\* hundredths
PenalizedScore(base_score, diversity_penalty, total) ==
  LET capped == IF diversity_penalty < 50 THEN diversity_penalty ELSE 50
      final_num == base_score - capped * 100 * total
  IN IF final_num < 0 THEN 0 ELSE final_num

\* the ScoredSentence the second pass appends for an item
ScoredItem(item, final_results, request) ==
  LET total == _get_score_weights(request)[2]
      diversity_penalty ==
        _calculate_diversity_penalty(item.sentence, final_results, request.language)
      final_score == PenalizedScore(item.base_score, diversity_penalty, total)
  IN [sentence |-> item.sentence,
      matched_words |-> item.matched_words,
      word_count |-> item.word_count,
      difficulty |-> item.difficulty,
      score |-> Round2(final_score, 100 * total),
      breakdown |->
        [frequency |-> item.breakdown.frequency,
         function |-> item.breakdown.function,
         match_bonus |-> item.breakdown.match_bonus,
         length_fit |-> item.breakdown.length_fit,
         diversity_penalty |-> 0 - 100 * diversity_penalty]]

RECURSIVE ApplyPenalties(_, _, _)
ApplyPenalties(preliminary, final_results, request) ==
  IF preliminary = <<>> THEN final_results
  ELSE ApplyPenalties(Tail(preliminary),
         Append(final_results, ScoredItem(Head(preliminary), final_results, request)),
         request)

\* the first pass and the sort by base score
PreliminaryResults(validated, request) ==
  LET preliminary_results ==
        <<>> \o
        [k \in 1..Len(validated) |->
           [sentence |-> validated[k].sentence,
            matched_words |-> validated[k].matched_words,
            word_count |-> validated[k].word_count,
            difficulty |-> validated[k].difficulty,
            base_score |-> BaseScore(validated[k], request),
            breakdown |-> _calculate_breakdown(validated[k].sentence,
                            validated[k].matched_words, request)]]
  IN SortDesc(preliminary_results,
              <<>> \o [k \in 1..Len(preliminary_results) |->
                           preliminary_results[k].base_score])

\* a variant that returns the results in the order of the second pass
FinalSortSkipped(final_results) == final_results

\* the sort by final score
FinalSort(final_results) ==
  SortDesc(final_results,
           <<>> \o [k \in 1..Len(final_results) |-> final_results[k].score])

score_sentences(validated, request) ==
  FinalSort(ApplyPenalties(PreliminaryResults(validated, request), <<>>, request))

(***************************************************************************)
(* agents/tools/diversify.py                                               *)
(***************************************************************************)
_KOREAN_PARTICLES ==
  << <<"i", "rang">>, <<"rang">>, <<"eu", "ro">>, <<"ro">>, <<"kka", "ji">>,
     <<"bu", "teo">>, <<"cheo", "reom">>, <<"gat", "i">>, <<"e", "ge">>,
     <<"kke">>, <<"han", "te">>, <<"e", "seo">>, <<"e", "ge", "seo">>,
     <<"eu", "ro", "bu", "teo">>, <<"wa">>, <<"gwa">>, <<"i">>, <<"ga">>,
     <<"eul">>, <<"reul">>, <<"eun">>, <<"neun">>, <<"e">>, <<"do">>,
     <<"man">> >>

_COMMON_ENDINGS ==
  << <<"hae", "ju", "se", "yo">>, <<"ju", "se", "yo">>, <<"hal", "kka", "yo">>,
     <<"kka", "yo">>, <<"haess", "eo", "yo">>, <<"haess", "eo">>,
     <<"hae", "yo">>, <<"eo", "yo">>, <<"a", "yo">>, <<"ne", "yo">>,
     <<"se", "yo">>, <<"jyo">>, <<"yo">>, <<"da">> >>

\* the first element of the list, in the list's order, that the word ends
\* with; <<>> when there is none.  strict asks for a longer word.
FirstSuffix(word, suffixes, strict) ==
  LET hits == {k \in 1..Len(suffixes) :
                 /\ EndsWith(word, suffixes[k])
                 /\ strict => Len(word) > Len(suffixes[k])}
  IN IF hits = {} THEN <<>>
     ELSE suffixes[CHOOSE k \in hits : \A h \in hits : k <= h]

_strip_korean_particles(word) ==
  LET particle == FirstSuffix(word, _KOREAN_PARTICLES, TRUE)
  IN IF particle = <<>> THEN word
     ELSE SubSeq(word, 1, Len(word) - Len(particle))

_contains_korean(text) == \E k \in 1..Len(text) : IsHangul(text[k])

\* re.sub(r"[^0-9A-Za-z<Hangul syllables>]", "", token)
KeepAlnum(token) ==
  SelectSeq(token, LAMBDA c : IsHangul(c) \/ c \in LowerLatin \cup UpperLatin)

\* _normalize_token of diversify.py
_normalize_token_diversify(token) ==
  LET cleaned == KeepAlnum(token)
  IN IF cleaned = <<>> THEN <<>>
     ELSE IF _contains_korean(cleaned) THEN _strip_korean_particles(cleaned)
     ELSE Lower(cleaned)

_get_pattern(sentence) ==
  IF sentence.matched_words # <<>>
  THEN _normalize_token_diversify(sentence.matched_words[1])
  ELSE LET words == Split(sentence.sentence)
       IN IF words # <<>> THEN _normalize_token_diversify(words[1]) ELSE <<>>

_get_start_key(sentence) ==
  LET words == Split(sentence.sentence)
  IN IF words = <<>> THEN <<>> ELSE _normalize_token_diversify(words[1])

_get_ending_key(sentence) ==
  LET text == Strip(sentence.sentence)
      stripped == RStripChars(text, {"."})
      words == Split(stripped)
      last_word == IF words # <<>> THEN words[Len(words)] ELSE stripped
      ending == FirstSuffix(last_word, _COMMON_ENDINGS, FALSE)
      normalized == KeepAlnum(last_word)
  IN IF text = <<>> THEN <<>>
     ELSE IF EndsWith(text, <<"?">>) THEN <<"?">>
     ELSE IF EndsWith(text, <<"!">>) THEN <<"!">>
     ELSE IF ending # <<>> THEN ending
     ELSE IF normalized = <<>> THEN <<>>
     ELSE IF Len(normalized) >= 2
          THEN SubSeq(normalized, Len(normalized) - 1, Len(normalized))
          ELSE normalized

\* candidate_keys[idx]
CandidateKeys(sentence) ==
  [pattern    |-> _get_pattern(sentence),
   start      |-> _get_start_key(sentence),
   ending     |-> _get_ending_key(sentence),
   difficulty |-> IF sentence.difficulty = NoneVal THEN "unknown"
                  ELSE sentence.difficulty]

target_per_difficulty(count) == IF count >= 3 THEN count \div 3 ELSE 1

\* candidate_keys, one record for each sentence of the list
AllCandidateKeys(scored_list) ==
  <<>> \o [i \in 1..Len(scored_list) |-> CandidateKeys(scored_list[i])]

\* the four counters after the sentences at selected_indexes were selected:
\* how many of them have the key
KeyCount(candidate_keys, selected_indexes, field, key) ==
  Cardinality({i \in selected_indexes : candidate_keys[i][field] = key})

\* a variant that starts the penalty only above the target
DifficultyPenaltyAboveTarget(candidate_keys, idx, selected_indexes, count) ==
  LET diff_count == KeyCount(candidate_keys, selected_indexes, "difficulty",
                             candidate_keys[idx].difficulty)
  IN IF diff_count > target_per_difficulty(count)
     THEN (diff_count - target_per_difficulty(count) + 1) * 10 ELSE 0

\* the part of the penalty that balances the difficulties
DifficultyPenalty(candidate_keys, idx, selected_indexes, count) ==
  LET diff_count == KeyCount(candidate_keys, selected_indexes, "difficulty",
                             candidate_keys[idx].difficulty)
  IN IF diff_count >= target_per_difficulty(count)
     THEN (diff_count - target_per_difficulty(count) + 1) * 10 ELSE 0

\* the penalty of the candidate at idx in an iteration
Penalty(candidate_keys, idx, selected_indexes, count) ==
  LET keys == candidate_keys[idx]
  IN KeyCount(candidate_keys, selected_indexes, "start", keys.start) * 3
     + KeyCount(candidate_keys, selected_indexes, "ending", keys.ending) * 4
     + DifficultyPenalty(candidate_keys, idx, selected_indexes, count)

\* a variant without the cap on a pattern
EligibleUncapped(candidate_keys, selected_indexes, max_similar) ==
  {idx \in 1..Len(candidate_keys) : idx \notin selected_indexes}

\* the candidates an iteration does not skip
Eligible(candidate_keys, selected_indexes, max_similar) ==
  {idx \in 1..Len(candidate_keys) :
     /\ idx \notin selected_indexes
     /\ ~(KeyCount(candidate_keys, selected_indexes, "pattern",
                   candidate_keys[idx].pattern) >= max_similar)}

\* a variant that adds the penalty to the score: the penalty then favours
\* a candidate, and the lowest score no longer loses to it
AdjustedScoresFavouringLow(scored_list, candidate_keys, selected_indexes, count) ==
  <<>> \o [idx \in 1..Len(scored_list) |->
             100 * Penalty(candidate_keys, idx, selected_indexes, count)
               - scored_list[idx].score]

\* sentence.score - penalty of every candidate, in hundredths
AdjustedScores(scored_list, candidate_keys, selected_indexes, count) ==
  <<>> \o [idx \in 1..Len(scored_list) |->
             scored_list[idx].score
               - 100 * Penalty(candidate_keys, idx, selected_indexes, count)]

\* a variant in which the last of the candidates with the best adjusted
\* score wins
BestIdxLastWins(scored_list, candidate_keys, selected_indexes, count, max_similar) ==
  LET eligible == Eligible(candidate_keys, selected_indexes, max_similar)
      adjusted == AdjustedScores(scored_list, candidate_keys, selected_indexes, count)
  IN IF eligible = {} THEN 0
     ELSE CHOOSE b \in eligible :
            \A i \in eligible :
              \/ adjusted[i] < adjusted[b]
              \/ adjusted[i] = adjusted[b] /\ b >= i

\* best_idx at the end of an iteration, 0 for None: the first candidate, in
\* the order of the list, that no other one exceeds
BestIdx(scored_list, candidate_keys, selected_indexes, count, max_similar) ==
  LET eligible == Eligible(candidate_keys, selected_indexes, max_similar)
      adjusted == AdjustedScores(scored_list, candidate_keys, selected_indexes, count)
  IN IF eligible = {} THEN 0
     ELSE CHOOSE b \in eligible :
            \A i \in eligible :
              \/ adjusted[i] < adjusted[b]
              \/ adjusted[i] = adjusted[b] /\ b <= i

\* a variant that appends every candidate left, whatever count is
BackfillUnbounded(scored_list, selected, selected_indexes, count) ==
  selected \o SelectSeq(<<>> \o [idx \in 1..Len(scored_list) |->
                                   [idx |-> idx, sentence |-> scored_list[idx]]],
                        LAMBDA x : x.idx \notin selected_indexes)

\* a variant that adds nothing after the greedy loop
BackfillSkipped(scored_list, selected, selected_indexes, count) == selected

\* the list after the loop that tops it up
RECURSIVE BackfillFrom(_, _, _, _, _)
BackfillFrom(scored_list, idx, selected, selected_indexes, count) ==
  IF idx > Len(scored_list) THEN selected
  ELSE IF idx \in selected_indexes
  THEN BackfillFrom(scored_list, idx + 1, selected, selected_indexes, count)
  ELSE LET appended == Append(selected, scored_list[idx])
       IN IF Len(appended) >= count THEN appended
          ELSE BackfillFrom(scored_list, idx + 1, appended, selected_indexes, count)

\* a variant of the top-up that does not skip the selected indexes
BackfillRepeating(scored_list, selected, selected_indexes, count) ==
  IF Len(selected) < count
  THEN BackfillFrom(scored_list, 1, selected, {}, count)
  ELSE selected

Backfill(scored_list, selected, selected_indexes, count) ==
  IF Len(selected) < count
  THEN BackfillFrom(scored_list, 1, selected, selected_indexes, count)
  ELSE selected

\* a variant that returns the list as it is only when it is shorter than count
ReturnsAsIsStrict(scored_list, count) == Len(scored_list) < count

\* the test of the early return
ReturnsAsIs(scored_list, count) == Len(scored_list) <= count

(***************************************************************************)
(* agents/pipeline.py                                                      *)
(***************************************************************************)
\* str.find: the 0-based index of the first occurrence, -1 when there is none
Find(s, p) ==
  LET at == {i \in 1..(Len(s) + 1) : StartsWithAt(s, i, p)}
  IN IF at = {} THEN 0 - 1 ELSE (CHOOSE i \in at : \A j \in at : i <= j) - 1

\* p in s, for texts
Contains(s, p) == Find(s, p) >= 0

\* round(n / d, 1) in tenths, n >= 0 and d > 0; a tie goes to the even neighbour
Round1(n, d) ==
  LET q == (10 * n) \div d
      r == (10 * n) % d
  IN IF 2 * r > d \/ (2 * r = d /\ q % 2 = 1) THEN q + 1 ELSE q

FailKeys ==
  {"word_count", "phoneme", "semantic_repetition", "no_predicate",
   "core_vocabulary", "other"}

\* the category of a failure reason: the first key, in the order the code
\* tests them, that occurs in the reason text
ReasonKey(fail_reason) ==
  IF fail_reason.code \in FailKeys \ {"other"} THEN fail_reason.code ELSE "other"

\* a variant whose histogram leaves out the failures of length
_calculate_metrics_without_word_count(all_cands, validation_results, scored, language) ==
  LET generated_count == Len(all_cands)
      validation_passed == Len(SelectSeq(validation_results, LAMBDA r : r.passed))
      failed == SelectSeq(validation_results,
                  LAMBDA r : ~r.passed /\ r.fail_reason # NoReason)
      count(key) == Len(SelectSeq(failed, LAMBDA r : ReasonKey(r.fail_reason) = key))
      structures == {_extract_sentence_structure(scored[k].sentence, language) :
                       k \in 1..Len(scored)}
      nouns_of(k) == _extract_nouns(scored[k].sentence, language)
      all_nouns == SumSeq([k \in 1..Len(scored) |-> Cardinality(nouns_of(k))])
      unique_nouns == Cardinality(UNION {nouns_of(k) : k \in 1..Len(scored)})
  IN [generated_count      |-> generated_count,
      validation_passed    |-> validation_passed,
      validation_rate      |-> IF generated_count > 0
                               THEN <<validation_passed * 100, generated_count>>
                               ELSE <<0, 1>>,
      fail_reasons         |-> [key \in {k \in FailKeys \ {"word_count"} :
                                           count(k) > 0} |-> count(key)],
      unique_structures    |-> Cardinality(structures),
      vocabulary_diversity |-> IF all_nouns > 0
                               THEN <<unique_nouns * 100, all_nouns>>
                               ELSE <<0, 1>>,
      semantic_duplicates  |-> count("semantic_repetition"),
      final_count          |-> Len(scored)]

\* validation_rate and vocabulary_diversity are kept as <<numerator,
\* denominator>> of the percentage
_calculate_metrics(all_cands, validation_results, scored, language) ==
  LET generated_count == Len(all_cands)
      validation_passed == Len(SelectSeq(validation_results, LAMBDA r : r.passed))
      failed == SelectSeq(validation_results,
                  LAMBDA r : ~r.passed /\ r.fail_reason # NoReason)
      count(key) == Len(SelectSeq(failed, LAMBDA r : ReasonKey(r.fail_reason) = key))
      structures == {_extract_sentence_structure(scored[k].sentence, language) :
                       k \in 1..Len(scored)}
      nouns_of(k) == _extract_nouns(scored[k].sentence, language)
      all_nouns == SumSeq([k \in 1..Len(scored) |-> Cardinality(nouns_of(k))])
      unique_nouns == Cardinality(UNION {nouns_of(k) : k \in 1..Len(scored)})
  IN [generated_count      |-> generated_count,
      validation_passed    |-> validation_passed,
      validation_rate      |-> IF generated_count > 0
                               THEN <<validation_passed * 100, generated_count>>
                               ELSE <<0, 1>>,
      fail_reasons         |-> [key \in {k \in FailKeys : count(k) > 0} |-> count(key)],
      unique_structures    |-> Cardinality(structures),
      vocabulary_diversity |-> IF all_nouns > 0
                               THEN <<unique_nouns * 100, all_nouns>>
                               ELSE <<0, 1>>,
      semantic_duplicates  |-> count("semantic_repetition"),
      final_count          |-> Len(scored)]

\* the item without its generated id
_to_therapy_item(scored, request) ==
  LET found == SelectSeq(scored.matched_words,
                 LAMBDA word : Find(scored.sentence, word) >= 0)
  IN [text |-> scored.sentence,
      target |-> request.target,
      matchedWords |->
        IF request.target = NoTarget THEN <<>>
        ELSE [k \in 1..Len(found) |->
                [word |-> found[k],
                 startIndex |-> Find(scored.sentence, found[k]),
                 endIndex |-> Find(scored.sentence, found[k]) + Len(found[k]),
                 positions |-> <<request.target.position>>]],
      wordCount |-> scored.word_count,
      score |-> scored.score,
      difficulty |-> scored.difficulty,
      approach |-> request.therapyApproach,
      function |-> request.communicativeFunction]

\* A generation result is [candidates, contrast_sets]; a contrast set is
\* [targetWord, contrastWord, targetSentence, contrastSentence], a sentence
\* of a set [text, tokens].
_validate_contrast_sets(sets, request) ==
  LET ok(contrast_set) ==
        LET target_tokens == contrast_set.targetSentence.tokens
            contrast_tokens == contrast_set.contrastSentence.tokens
            target_text == contrast_set.targetSentence.text
            match_result ==
              IF request.language = KO
              THEN find_phoneme_matches(target_text, request.target.phoneme,
                     request.target.position, request.target.minOccurrences)
              ELSE find_phoneme_matches_en(target_text, request.target.phoneme,
                     request.target.minOccurrences)
        IN /\ Len(target_tokens) = request.sentenceLength
           /\ Len(contrast_tokens) = request.sentenceLength
           /\ (request.target # NoTarget /\ request.target.phoneme # <<>>)
                => match_result.meets_minimum
           /\ contrast_set.targetWord # <<>> =>
                \E k \in 1..Len(target_tokens) :
                  Contains(target_tokens[k], contrast_set.targetWord)
           /\ contrast_set.contrastWord # <<>> =>
                \E k \in 1..Len(contrast_tokens) :
                  Contains(contrast_tokens[k], contrast_set.contrastWord)
  IN SelectSeq(sets, ok)

(***************************************************************************)
(* The inputs of the model.                                                *)
(***************************************************************************)
SeqsUpTo(S, n) == UNION {[1..k -> S] : k \in 0..n}

\* Korean tokens: "this", "this" with the object particle, "ramen" with the
\* subject particle, "is tasty", "mum" with a comma, "give me"
T_igeo        == <<"i", "geo">>
T_igeoreul    == <<"i", "geo", "reul">>
T_ramyeoni    == <<"ra", "myeon", "i">>
T_masisseoyo  == <<"mat", "iss", "eo", "yo">>
T_eomma_comma == <<"eom", "ma", ",">>
T_jwo         == <<"jwo">>

\* "the country" with the object particle: two syllables with the onset R
T_narareul    == <<"na", "ra", "reul">>

\* English tokens
T_I    == <<"I_">>
T_want == <<"w_", "a_", "n_", "t_">>
T_More == <<"M_", "o_", "r_", "e_", "!">>
T_go   == <<"g_", "o_">>

Vocabulary(language) ==
  IF language = KO
  THEN {T_igeo, T_igeoreul, T_ramyeoni, T_masisseoyo, T_eomma_comma, T_jwo}
  ELSE {T_I, T_want, T_More, T_go}

Target(phoneme, position, minOccurrences) ==
  [phoneme |-> phoneme, position |-> position, minOccurrences |-> minOccurrences]

Request(language, count, target, sentenceLength, approach, function, core_words) ==
  [language |-> language, count |-> count, target |-> target,
   sentenceLength |-> sentenceLength, therapyApproach |-> approach,
   communicativeFunction |-> function, core_words |-> core_words]

StrCandidate(sentence) ==
  [kind |-> "str", sentence |-> sentence, difficulty |-> NoneVal]

DictCandidate(sentence, difficulty) ==
  [kind |-> "dict", sentence |-> sentence, difficulty |-> difficulty]

\* the requests validate_sentences is called with
ValidateRequests ==
  {Request(KO, 1, t, n, MINIMAL_PAIRS, NoneVal, <<>>) :
     t \in {Target(<<"R_j">>, "onset", 1), Target(<<"R_j">>, "onset", 2)},
     n \in {3, 4}}
  \cup
  {Request(KO, 1, NoTarget, n, CORE_VOCABULARY, NoneVal, cw) :
     cw \in {<<>>, <<T_igeo>>}, n \in {3, 4}}
  \cup
  {Request(EN, 1, Target(<<"r_">>, p, 1), n, MINIMAL_PAIRS, NoneVal, <<>>) :
     p \in {"any", "onset"}, n \in {3, 4}}
  \cup
  {Request(EN, 1, NoTarget, n, CORE_VOCABULARY, NoneVal, <<>>) : n \in {3, 4}}

\* candidates of every kind validate_sentences accepts
ItemPool(language) ==
  LET a == IF language = KO
           THEN Join(<<T_igeo, T_ramyeoni, T_masisseoyo>>)
           ELSE Join(<<T_I, T_want, T_More>>)
      b == IF language = KO THEN Join(<<T_igeo, T_masisseoyo>>)
           ELSE Join(<<T_I, T_go>>)
      c == IF language = KO
           THEN {StrCandidate(Join(<<T_igeo, T_narareul, T_masisseoyo>>))}
           ELSE {}
  IN {StrCandidate(a), DictCandidate(b, "easy"), DictCandidate(a, "bogus"),
      DictCandidate(a, NonStr),
      [kind |-> "dict_no_sentence", sentence |-> <<>>, difficulty |-> NoneVal],
      [kind |-> "other", sentence |-> <<>>, difficulty |-> NoneVal]} \cup c

ValidateInputs(language) ==
  {<<StrCandidate(Join(toks))>> : toks \in SeqsUpTo(Vocabulary(language), MaxWords)}
  \cup SeqsUpTo(ItemPool(language), MaxItems)

\* the requests run_pipeline is called with
PipelineRequests ==
  UNION {
    {Request(KO, c, Target(<<"R_j">>, "onset", 1), 3, MINIMAL_PAIRS, NoneVal, <<>>),
     Request(KO, c, NoTarget, 2, CORE_VOCABULARY, REQUEST, <<>>)} :
    c \in 1..MaxCount}

LongCandidate ==
  DictCandidate(Join(<<T_igeo, T_ramyeoni, T_masisseoyo>>), "easy")

ShortCandidate == DictCandidate(Join(<<T_igeo, T_masisseoyo>>), NoneVal)

\* a batch: three-word candidates, then possibly a two-word one
Batch(long, short) ==
  [k \in 1..(long + short) |-> IF k <= long THEN LongCandidate ELSE ShortCandidate]

TokenizedSentence(tokens) == [text |-> Join(tokens), tokens |-> tokens]

RamyeonEomma ==
  [targetWord |-> <<"ra", "myeon">>, contrastWord |-> <<"eom", "ma">>,
   targetSentence |-> TokenizedSentence(<<T_igeo, T_ramyeoni, T_masisseoyo>>),
   contrastSentence |-> TokenizedSentence(<<T_igeo, T_eomma_comma, T_masisseoyo>>)]

RamyeonIgeo ==
  [targetWord |-> <<"ra", "myeon">>, contrastWord |-> <<"i", "geo">>,
   targetSentence |-> TokenizedSentence(<<T_ramyeoni, T_masisseoyo>>),
   contrastSentence |-> TokenizedSentence(<<T_igeo, T_masisseoyo>>)]

\* the contrast sets of one response in the "sets" format
ContrastPool == {<<RamyeonEomma>>, <<RamyeonIgeo>>, <<RamyeonEomma, RamyeonIgeo>>}

\* the candidates of the "sets" format: both sentences of every set
RECURSIVE SetCandidates(_)
SetCandidates(sets) ==
  IF sets = <<>> THEN <<>>
  ELSE <<DictCandidate(Head(sets).targetSentence.text, NoneVal),
         DictCandidate(Head(sets).contrastSentence.text, NoneVal)>>
       \o SetCandidates(Tail(sets))

\* what generate_candidates delivers: dicts with a str sentence and, when
\* the model gave an allowed one, a difficulty
GenerationResults(request) ==
  {[candidates |-> Batch(long, short), contrast_sets |-> <<>>] :
     long \in 0..(MaxBatch - 1), short \in {0, 1}}
  \cup
  {[candidates |-> Batch(MaxBatch, 0), contrast_sets |-> <<>>]}
  \cup
  (IF request.therapyApproach = CORE_VOCABULARY THEN {}
   ELSE {[candidates |-> SetCandidates(sets), contrast_sets |-> sets] :
           sets \in ContrastPool})

(***************************************************************************)
(* The state.                                                              *)
(***************************************************************************)
VARIABLES
  pc,                     \* where the run is
  request,                \* the request of the run
  max_attempts,           \* run_pipeline's argument
  attempt,                \* loop iterations of run_pipeline done so far
  calls,                  \* the generate_candidates calls made so far: the
                          \* size asked for, the validated sentences held
                          \* then, whether the call raised, and how many of
                          \* its candidates passed validation
  all_candidates,
  all_validation_results,
  all_validated,
  all_contrast_sets,
  scored,                 \* score_sentences' return value
  result,                 \* <<>>, or <<the PipelineResult returned>>
  sentences,              \* validate_sentences' argument
  results,                \* validate_sentences' return value
  args,                   \* the arguments of a function called on its own
  locals,                 \* the local variables of that call
  ret                     \* <<>>, or <<the value that call returned>>

vars ==
  <<pc, request, max_attempts, attempt, calls, all_candidates,
    all_validation_results, all_validated, all_contrast_sets, scored, result,
    sentences, results, args, locals, ret>>

(***************************************************************************)
(* run_pipeline                                                            *)
(***************************************************************************)
\* max_attempts when the caller passes none
DEFAULT_MAX_ATTEMPTS == 1

\* a variant that oversamples four times
target_four_times == request.count * 4

target_candidates == request.count * 3

\* a variant that rounds the batch size up
batch_size_rounded_up == (3 * (target_candidates - Len(all_validated)) + 1) \div 2

\* int(batch_size * 1.5) at the head of an iteration
batch_size == (3 * (target_candidates - Len(all_validated))) \div 2

\* a variant whose loop runs once more than max_attempts
CanGenerateOnceMore ==
  /\ pc = "loop"
  /\ attempt <= max_attempts
  /\ target_candidates - Len(all_validated) > 0

CanGenerate ==
  /\ pc = "loop"
  /\ attempt < max_attempts
  /\ target_candidates - Len(all_validated) > 0

Init ==
  /\ pc = "loop"
  /\ request \in PipelineRequests
  /\ max_attempts \in {DEFAULT_MAX_ATTEMPTS} \cup 1..MaxAttempts
  /\ attempt = 0
  /\ calls = <<>>
  /\ all_candidates = <<>>
  /\ all_validation_results = <<>>
  /\ all_validated = <<>>
  /\ all_contrast_sets = <<>>
  /\ scored = <<>>
  /\ result = <<>>
  /\ sentences = <<>>
  /\ results = <<>>
  /\ args = <<>>
  /\ locals = <<>>
  /\ ret = <<>>

\* one iteration in which generate_candidates returns gen_result
GenerateReturns(gen_result) ==
  /\ CanGenerate
  /\ LET candidates == gen_result.candidates
         contrast_sets == gen_result.contrast_sets
         validated == validate_sentences(candidates, request)
         passed == get_passed_sentences(validated)
         extended == all_contrast_sets \o _validate_contrast_sets(contrast_sets, request)
     IN /\ calls' = Append(calls, [batch_size |-> batch_size,
                                   validated_before |-> Len(all_validated),
                                   raised |-> FALSE,
                                   passed |-> Len(passed)])
        /\ all_candidates' = all_candidates \o candidates
        /\ all_validation_results' = all_validation_results \o validated
        /\ all_validated' = all_validated \o passed
        /\ all_contrast_sets' =
             IF contrast_sets = <<>> THEN all_contrast_sets
             ELSE IF Len(extended) > request.count
                  THEN SubSeq(extended, 1, request.count)
                  ELSE extended
        /\ pc' = IF Len(all_validated \o passed) >= target_candidates
                 THEN "score" ELSE "loop"
  /\ attempt' = attempt + 1
  /\ UNCHANGED <<args, locals, ret, request, max_attempts, scored, result, sentences, results>>

\* a variant in which the exception leaves run_pipeline
GenerateRaisesPropagates ==
  /\ CanGenerate
  /\ calls' = Append(calls, [batch_size |-> batch_size,
                             validated_before |-> Len(all_validated),
                             raised |-> TRUE,
                             passed |-> 0])
  /\ attempt' = attempt + 1
  /\ pc' = "raised"
  /\ UNCHANGED <<args, locals, ret, request, max_attempts, all_candidates, all_validation_results,
                 all_validated, all_contrast_sets, scored, result, sentences,
                 results>>

\* one iteration in which generate_candidates raises
GenerateRaises ==
  /\ CanGenerate
  /\ calls' = Append(calls, [batch_size |-> batch_size,
                             validated_before |-> Len(all_validated),
                             raised |-> TRUE,
                             passed |-> 0])
  /\ attempt' = attempt + 1
  /\ UNCHANGED <<pc, args, locals, ret, request, max_attempts, all_candidates, all_validation_results,
                 all_validated, all_contrast_sets, scored, result, sentences,
                 results>>

\* the loop ends: no attempt is left, or nothing is missing
LoopExit ==
  /\ pc = "loop"
  /\ attempt >= max_attempts \/ target_candidates - Len(all_validated) <= 0
  /\ pc' = "score"
  /\ UNCHANGED <<args, locals, ret, request, max_attempts, attempt, calls, all_candidates,
                 all_validation_results, all_validated, all_contrast_sets,
                 scored, result, sentences, results>>

\* a variant that keeps the request.count best sentences only
ScoreTopCount ==
  /\ pc = "score"
  /\ scored' = LET all == score_sentences(all_validated, request)
               IN IF Len(all) > request.count THEN SubSeq(all, 1, request.count)
                  ELSE all
  /\ pc' = "assemble"
  /\ UNCHANGED <<args, locals, ret, request, max_attempts, attempt, calls, all_candidates,
                 all_validation_results, all_validated, all_contrast_sets,
                 result, sentences, results>>

Score ==
  /\ pc = "score"
  /\ scored' = score_sentences(all_validated, request)
  /\ pc' = "assemble"
  /\ UNCHANGED <<args, locals, ret, request, max_attempts, attempt, calls, all_candidates,
                 all_validation_results, all_validated, all_contrast_sets,
                 result, sentences, results>>

PipelineResult ==
  LET metrics == _calculate_metrics(all_candidates, all_validation_results,
                                    scored, request.language)
      items == [k \in 1..Len(scored) |-> _to_therapy_item(scored[k], request)]
  IN [success |-> TRUE,
      items |-> items,
      contrast_sets |-> all_contrast_sets,
      meta |-> [requestedCount |-> request.count,
                generatedCount |-> Len(items),
                averageScore |->
                  IF scored # <<>>
                  THEN Round2(SumSeq([k \in 1..Len(scored) |-> scored[k].score]),
                              100 * Len(scored))
                  ELSE 0,
                validationRate |->
                  Round1(metrics.validation_rate[1], metrics.validation_rate[2]),
                uniqueStructures |-> metrics.unique_structures,
                vocabularyDiversity |->
                  Round1(metrics.vocabulary_diversity[1],
                         metrics.vocabulary_diversity[2])],
      metrics |-> metrics]

\* a variant that reports failure when nothing was scored
AssembleFailsWhenEmpty ==
  /\ pc = "assemble"
  /\ result' = <<[PipelineResult EXCEPT !.success = (scored # <<>>)]>>
  /\ pc' = "done"
  /\ UNCHANGED <<args, locals, ret, request, max_attempts, attempt, calls, all_candidates,
                 all_validation_results, all_validated, all_contrast_sets,
                 scored, sentences, results>>

Assemble ==
  /\ pc = "assemble"
  /\ result' = <<PipelineResult>>
  /\ pc' = "done"
  /\ UNCHANGED <<args, locals, ret, request, max_attempts, attempt, calls, all_candidates,
                 all_validation_results, all_validated, all_contrast_sets,
                 scored, sentences, results>>

\* one iteration of the loop: the generate call raises or returns
Generate ==
  \/ GenerateRaises
  \/ \E gen_result \in GenerationResults(request) : GenerateReturns(gen_result)

Next ==
  \/ Generate
  \/ LoopExit
  \/ Score
  \/ Assemble

Spec == Init /\ [][Next]_vars

\* the run is one task that nothing preempts for ever: each of its steps is
\* taken once it can be, and each generate call returns or raises.  Score
\* and Assemble have no guard but the stage, so their weak fairness is that
\* the run does not stay in the stage for ever.
FairSpec ==
  /\ Spec
  /\ WF_vars(Generate)
  /\ WF_vars(LoopExit)
  /\ []<>(pc # "score")
  /\ []<>(pc # "assemble")

(***************************************************************************)
(* validate_sentences on its own.                                          *)
(***************************************************************************)
InitValidate ==
  /\ pc = "validate_call"
  /\ request \in ValidateRequests
  /\ sentences \in ValidateInputs(request.language)
  /\ results = <<>>
  /\ max_attempts = 1
  /\ attempt = 0
  /\ calls = <<>>
  /\ all_candidates = <<>>
  /\ all_validation_results = <<>>
  /\ all_validated = <<>>
  /\ all_contrast_sets = <<>>
  /\ scored = <<>>
  /\ result = <<>>
  /\ args = <<>>
  /\ locals = <<>>
  /\ ret = <<>>

ValidateSentences ==
  /\ pc = "validate_call"
  /\ results' = validate_sentences(sentences, request)
  /\ pc' = "validate_return"
  /\ UNCHANGED <<args, locals, ret, request, max_attempts, attempt, calls, all_candidates,
                 all_validation_results, all_validated, all_contrast_sets,
                 scored, result, sentences>>

NextValidate == ValidateSentences

SpecValidate == InitValidate /\ [][NextValidate]_vars


(***************************************************************************)
(* Properties of run_pipeline.                                             *)
(***************************************************************************)
Returned == pc = "done" /\ result # <<>>

PassedCount ==
  Cardinality({k \in 1..Len(all_validation_results) :
                 all_validation_results[k].passed})

\* C1: an exception raised by a generate attempt is not propagated: the
\* attempt adds nothing to the candidates, the validation results and the
\* validated sentences, everything accumulated before it is kept, and the
\* run stays in its loop, one attempt further
C1_RaisedAttemptIsAbsorbed ==
  [][(Len(calls') = Len(calls) + 1 /\ calls'[Len(calls')].raised)
       => /\ all_candidates' = all_candidates
          /\ all_validation_results' = all_validation_results
          /\ all_validated' = all_validated
          /\ all_contrast_sets' = all_contrast_sets
          /\ pc' = "loop"
          /\ attempt' = attempt + 1]_vars

\* a run whose first attempt raised, whose second attempt delivered
\* sentences that passed, and that returned them
C1_Witness ==
  /\ Returned
  /\ Len(calls) = 2
  /\ calls[1].raised
  /\ ~calls[2].raised
  /\ all_validated # <<>>
  /\ result[1].items # <<>>

\* C2: every result returned has success = True; when no candidate passed
\* validation the result has no items, generatedCount 0 and averageScore 0
C2_AlwaysSuccess ==
  result # <<>> =>
    /\ result[1].success
    /\ PassedCount = 0 =>
         /\ result[1].items = <<>>
         /\ result[1].meta.generatedCount = 0
         /\ result[1].meta.averageScore = 0

\* a run that returned after candidates were delivered and none of them passed
C2_Witness ==
  /\ Returned
  /\ all_candidates # <<>>
  /\ PassedCount = 0
  /\ result[1].success

\* C3: a run makes at most max_attempts generate calls, it moves from the
\* loop to SCORE, from SCORE to ASSEMBLE and from ASSEMBLE to DONE and in no
\* other way, and it reaches DONE with a result
C3_BoundedAndTerminates ==
  /\ [](Len(calls) <= max_attempts)
  /\ [][pc' # pc => <<pc, pc'>> \in {<<"loop", "score">>, <<"score", "assemble">>,
                                      <<"assemble", "done">>}]_vars
  /\ <>Returned

\* a run that used every one of its attempts, more than one, and returned
C3_Witness ==
  /\ Returned
  /\ max_attempts = MaxAttempts
  /\ Len(calls) = max_attempts
  /\ \A i \in 1..Len(calls) : ~calls[i].raised

\* C4: a run with the default max_attempts whose first batch has fewer
\* passing sentences than the request asks for makes at least two generate
\* calls
C4_DefaultRunRetries ==
  (/\ Returned
   /\ max_attempts = DEFAULT_MAX_ATTEMPTS
   /\ calls # <<>>
   /\ ~calls[1].raised
   /\ calls[1].passed < request.count)
    => Len(calls) >= 2

C6_NoCallOnceTargetReached ==
  [][Len(all_validated) >= 3 * request.count => calls' = calls]_vars

\* a run that reached the target with an attempt left, and returned
C6_Witness ==
  /\ Returned
  /\ Len(all_validated) >= 3 * request.count
  /\ attempt < max_attempts
  /\ Len(calls) = attempt


(***************************************************************************)
(* Properties of validate_sentences.                                       *)
(***************************************************************************)
ValidateReturned == pc = "validate_return"

\* the number of whitespace-separated tokens of a sentence
TokenCount(sentence) == Len(Split(sentence))

WrongLength(r) == TokenCount(r.sentence) # request.sentenceLength

RepeatsStem(r) ==
  /\ request.language = KO
  /\ \E g \in 1..Len(_KO_STEM_GROUPS) : StemCount(g, r.sentence) >= 2

LacksPredicate(r) ==
  /\ TokenCount(r.sentence) <= 3
  /\ ~_check_has_predicate(r.sentence, request.language)

C8_FirstFailureReported ==
  ValidateReturned =>
    \A k \in 1..Len(results) :
      LET r == results[k]
          code == r.fail_reason.code
      IN IF WrongLength(r) THEN ~r.passed /\ code = "word_count"
         ELSE IF RepeatsStem(r) THEN ~r.passed /\ code = "semantic_repetition"
         ELSE IF LacksPredicate(r) THEN ~r.passed /\ code = "no_predicate"
         ELSE \/ r.passed /\ r.fail_reason = NoReason
              \/ /\ ~r.passed
                 /\ code = IF request.therapyApproach = CORE_VOCABULARY
                           THEN "core_vocabulary" ELSE "phoneme"

\* a sentence that has the wrong length, repeats a stem and lacks a
\* predicate, and failed with word_count
C8_Witness ==
  /\ ValidateReturned
  /\ \E k \in 1..Len(results) :
       /\ WrongLength(results[k])
       /\ RepeatsStem(results[k])
       /\ LacksPredicate(results[k])
       /\ results[k].fail_reason.code = "word_count"

\* what generate_candidates delivers: plain strings and dicts with a str
\* sentence
Deliverable == \A i \in 1..Len(sentences) : sentences[i].kind \in {"str", "dict"}

\* C9: for candidates the generator can deliver, validate_sentences returns
\* one result per candidate, in the order of the candidates
C9_OneResultPerCandidate ==
  (ValidateReturned /\ Deliverable) =>
    /\ Len(results) = Len(sentences)
    /\ \A i \in 1..Len(sentences) : results[i].sentence = sentences[i].sentence

\* a call with a plain string and a dict whose difficulty is not an allowed
\* one
C9_Witness ==
  /\ ValidateReturned
  /\ Deliverable
  /\ \E i \in 1..Len(sentences) : sentences[i].kind = "str"
  /\ \E i \in 1..Len(sentences) :
       sentences[i].kind = "dict" /\ sentences[i].difficulty \notin DifficultyLevel
  /\ Len(results) = Len(sentences)

\* a token made of a core word of the request and a particle
HasCoreWordWithParticle(sentence) ==
  LET words == Split(sentence)
  IN \E k \in 1..Len(words), c \in 1..Len(request.core_words),
        p \in 1..Len(_KO_PARTICLES) :
       words[k] = request.core_words[c] \o _KO_PARTICLES[p]

\* C10: for a Korean core_vocabulary request, a sentence with a token made
\* of a core word and a trailing particle is not failed for missing a core
\* word
C10_ParticleTokenMatches ==
  (/\ ValidateReturned
   /\ request.language = KO
   /\ request.therapyApproach = CORE_VOCABULARY
   /\ request.core_words # <<>>)
    => \A k \in 1..Len(results) :
         HasCoreWordWithParticle(results[k].sentence) =>
           results[k].fail_reason.detail # "missing core word"


\* the targets a request of the given language can carry besides its own
OtherTargets(language) ==
  IF language = KO
  THEN {NoTarget, Target(<<"R_j">>, "onset", 1), Target(<<"R_j">>, "onset", 2),
        Target(<<"R_j">>, "coda", 1), Target(<<"S_j">>, "any", 3)}
  ELSE {NoTarget, Target(<<"r_">>, "any", 1), Target(<<"r_">>, "any", 3)}

\* C11: under the core_vocabulary approach the verdict does not depend on
\* request.target: the same candidates validated under a request that differs
\* in its target only get the same passed flag and the same fail_reason, and
\* matched_words is empty in every result.
C11_CoreVerdictIgnoresTarget ==
  (ValidateReturned /\ request.therapyApproach = CORE_VOCABULARY) =>
    /\ \A k \in 1..Len(results) : results[k].matched_words = <<>>
    /\ \A t \in OtherTargets(request.language) :
         LET other == validate_sentences(sentences, [request EXCEPT !.target = t])
         IN /\ Len(other) = Len(results)
            /\ \A k \in 1..Len(results) :
                 /\ other[k].passed = results[k].passed
                 /\ other[k].fail_reason = results[k].fail_reason
                 /\ other[k].matched_words = <<>>

\* a core_vocabulary run with a passed sentence that misses one of the other
\* targets and a failed one
C11_Witness ==
  /\ ValidateReturned
  /\ request.therapyApproach = CORE_VOCABULARY
  /\ request.language = KO
  /\ \E k \in 1..Len(results) :
       /\ results[k].passed
       /\ ~find_phoneme_matches(results[k].sentence, <<"R_j">>, "onset", 2).meets_minimum
       /\ find_phoneme_matches(results[k].sentence, <<"R_j">>, "onset", 1).meets_minimum
  /\ \E k \in 1..Len(results) : ~results[k].passed


\* the syllables of a Korean word that carry the phoneme in the position; the
\* onset filler is silent and is no phoneme of the syllable
QualifyingSyllables(word, phoneme, position) ==
  {j \in 1..Len(word) :
     /\ IsDecomposable(word[j])
     /\ LET d == HangulTable[word[j]]
            onset   == IF d[1] = "NG_j" THEN {} ELSE {<<d[1]>>}
            nucleus == {<<d[2]>>}
            coda    == IF d[3] = "" THEN {} ELSE {<<d[3]>>}
        IN \/ position \in {"onset", "any"}   /\ phoneme \in onset
           \/ position \in {"nucleus", "any"} /\ phoneme \in nucleus
           \/ position \in {"coda", "any"}    /\ phoneme \in coda}

\* an ARPAbet symbol is a vowel when it starts with a vowel letter
IsArpabetVowel(p) == Head(p) \in {"A_", "E_", "I_", "O_", "U_"}

\* the places of an English word's pronunciation that carry the phoneme in
\* the position: a vowel is a nucleus, a consonant with a vowel after it an
\* onset, a consonant with no vowel after it a coda
QualifyingPhones(word, phoneme, position) ==
  LET phones == get_phonemes(SelectSeq(word, IsAlpha))
  IN {j \in 1..Len(phones) :
        /\ phones[j] = Upper(phoneme)
        /\ LET later == \E i \in (j + 1)..Len(phones) : IsArpabetVowel(phones[i])
           IN \/ position = "any"
              \/ position = "nucleus" /\ IsArpabetVowel(phones[j])
              \/ position = "onset" /\ ~IsArpabetVowel(phones[j]) /\ later
              \/ position = "coda" /\ ~IsArpabetVowel(phones[j]) /\ ~later}

\* the words of the sentence that carry the target at the requested position
WordsAtPosition(sentence, language, target) ==
  SelectSeq(Split(sentence),
    LAMBDA w : IF language = KO
               THEN QualifyingSyllables(w, target.phoneme, target.position) # {}
               ELSE QualifyingPhones(w, target.phoneme, target.position) # {})

\* the words of the sentence the code counts: for English the position is
\* not consulted
WordsCounted(sentence, language, target) ==
  WordsAtPosition(sentence, language,
    IF language = KO THEN target ELSE [target EXCEPT !.position = "any"])

PassedEarlierChecks(r) ==
  r.fail_reason.code \notin {"word_count", "semantic_repetition", "no_predicate"}

\* what the claim says of one result, given the words that count
PhonemeVerdict(r, counted, minOccurrences) ==
  /\ r.passed <=> (Len(counted) >= minOccurrences)
  /\ Len(r.matched_words) = Len(counted)
  /\ ~r.passed =>
       r.fail_reason = Reason("phoneme", "", minOccurrences, Len(counted), <<>>)

HasPhonemeTarget ==
  /\ request.therapyApproach # CORE_VOCABULARY
  /\ request.target # NoTarget
  /\ request.target.phoneme # <<>>

NoRun ==
  /\ request = NoneVal
  /\ max_attempts = 1
  /\ attempt = 0
  /\ calls = <<>>
  /\ all_candidates = <<>>
  /\ all_validation_results = <<>>
  /\ all_validated = <<>>
  /\ all_contrast_sets = <<>>
  /\ scored = <<>>
  /\ result = <<>>
  /\ sentences = <<>>
  /\ results = <<>>

NoRunVars ==
  <<request, max_attempts, attempt, calls, all_candidates,
    all_validation_results, all_validated, all_contrast_sets, scored, result,
    sentences, results>>

(***************************************************************************)
(* has_phoneme_at_position on its own.                                     *)
(***************************************************************************)
\* the characters of the words: syllables with the onset filler and with the
\* coda NG, syllables with neither, and a character that is no syllable
PhonemeChars == {"i", "ang", "gang", "ra", "!"}

PhonemeInputs ==
  [word     : SeqsUpTo(PhonemeChars, MaxSyllables),
   phoneme  : {<<"NG_j">>, <<"R_j">>, <<"a_j">>},
   position : {"onset", "nucleus", "coda", "any"}]

InitPhoneme ==
  /\ pc = "phoneme_call"
  /\ args \in PhonemeInputs
  /\ locals = <<>>
  /\ ret = <<>>
  /\ NoRun

HasPhonemeAtPosition ==
  /\ pc = "phoneme_call"
  /\ ret' = <<has_phoneme_at_position(args.word, args.phoneme, args.position)>>
  /\ pc' = "phoneme_return"
  /\ UNCHANGED <<args, locals, NoRunVars>>

NextPhoneme == HasPhonemeAtPosition

SpecPhoneme == InitPhoneme /\ [][NextPhoneme]_vars

PhonemeReturned == pc = "phoneme_return"

\* some syllable of the word has the coda NG
HasCodaNG(word) ==
  \E j \in 1..Len(word) :
    IsDecomposable(word[j]) /\ HangulTable[word[j]][3] = "NG_j"

\* C13: has_phoneme_at_position(word, NG, "onset") is false for every word,
\* and for NG with the position "coda" or "any" it is true exactly when some
\* syllable of the word has the coda NG.
C13_OnsetFillerNeverMatches ==
  (PhonemeReturned /\ args.phoneme = <<"NG_j">>) =>
    /\ args.position = "onset" => ret = <<FALSE>>
    /\ args.position \in {"coda", "any"} => ret = <<HasCodaNG(args.word)>>

\* a word that starts with the onset filler and has a coda NG further on,
\* asked for NG in the onset
C13_Witness ==
  /\ PhonemeReturned
  /\ args.phoneme = <<"NG_j">>
  /\ args.position = "onset"
  /\ Len(args.word) >= 2
  /\ IsDecomposable(args.word[1])
  /\ HangulTable[args.word[1]][1] = "NG_j"
  /\ HasCodaNG(Tail(args.word))
  /\ ret = <<FALSE>>


(***************************************************************************)
(* score_sentences and _get_score_weights on their own.  score_sentences   *)
(* runs in steps: the first pass and its sort, one step of the second pass *)
(* for each item, and the final sort.                                      *)
(***************************************************************************)
\* every configuration of language, function and approach
ScoreRequests ==
  {Request(language, 1,
           IF approach = CORE_VOCABULARY THEN NoTarget
           ELSE Target(IF language = KO THEN <<"R_j">> ELSE <<"r_">>, "any", 1),
           3, approach, function, <<>>) :
     language \in {KO, EN}, approach \in {MINIMAL_PAIRS, CORE_VOCABULARY},
     function \in {NoneVal, REQUEST}}

\* an element of score_sentences' argument
ValidatedItem(sentence, matched_words) ==
  [sentence |-> sentence, matched_words |-> matched_words,
   word_count |-> Len(Split(sentence)), difficulty |-> NoneVal]

\* the sentences that are scored: a long one, a request that shares a noun
\* with it, and a short one
ScoreSentences(language) ==
  IF language = KO
  THEN <<Join(<<T_igeo, T_ramyeoni, T_eomma_comma, T_masisseoyo>>),
         Join(<<T_narareul, T_ramyeoni, T_jwo>>),
         Join(<<T_igeo, T_jwo>>)>>
  ELSE <<Join(<<T_I, T_want, T_More, T_go>>),
         Join(<<T_I, T_want, T_More>>),
         Join(<<T_I, T_go>>)>>

ScorePool(language) ==
  LET s == ScoreSentences(language)
      w == IF language = KO THEN T_ramyeoni ELSE Lower(SelectSeq(T_More, IsAlpha))
  IN {ValidatedItem(s[1], <<w>>), ValidatedItem(s[2], <<w, w>>),
      ValidatedItem(s[3], <<>>)}

\* a list of LongValidated items: the items of the pool in turn
LongValidatedList(language) ==
  LET sen == ScoreSentences(language)
      w == IF language = KO THEN T_ramyeoni ELSE Lower(SelectSeq(T_More, IsAlpha))
      matched == <<(<<w>>), (<<w, w>>), (<<>>)>>
  IN <<>> \o [i \in 1..LongValidated |->
                ValidatedItem(sen[(i % 3) + 1], matched[(i % 3) + 1])]

\* lists of items of the pool, single items with every number of matched
\* words up to MaxMatched, and the long list
ScoreInputs(language) ==
  SeqsUpTo(ScorePool(language), MaxValidated)
  \cup {<<ValidatedItem(ScoreSentences(language)[k], [i \in 1..n |-> T_jwo])>> :
          k \in 1..3, n \in 0..MaxMatched}
  \cup {LongValidatedList(language)}

InitScore ==
  /\ pc = "score_call"
  /\ \E r \in ScoreRequests :
       args \in [validated : ScoreInputs(r.language), request : {r}]
  /\ locals = <<>>
  /\ ret = <<>>
  /\ NoRun

GetScoreWeights ==
  /\ pc = "score_call"
  /\ ret' = <<_get_score_weights(args.request)>>
  /\ pc' = "weights_return"
  /\ UNCHANGED <<args, locals, NoRunVars>>

FirstPass ==
  /\ pc = "score_call"
  /\ locals' = [preliminary_results |-> PreliminaryResults(args.validated, args.request),
                final_results |-> <<>>,
                penalized |-> <<>>]
  /\ pc' = "second_pass"
  /\ UNCHANGED <<args, ret, NoRunVars>>

\* one iteration of the second loop; penalized records the item's base score,
\* its diversity penalty and its final score before rounding
PenaltyStep ==
  /\ pc = "second_pass"
  /\ locals.preliminary_results # <<>>
  /\ LET item == Head(locals.preliminary_results)
         diversity_penalty ==
           _calculate_diversity_penalty(item.sentence, locals.final_results,
                                        args.request.language)
     IN locals' =
          [preliminary_results |-> Tail(locals.preliminary_results),
           final_results |->
             Append(locals.final_results,
                    ScoredItem(item, locals.final_results, args.request)),
           penalized |->
             Append(locals.penalized,
                    [base_score |-> item.base_score,
                     diversity_penalty |-> diversity_penalty,
                     final_score |->
                       PenalizedScore(item.base_score, diversity_penalty,
                                      _get_score_weights(args.request)[2])])]
  /\ UNCHANGED <<pc, args, ret, NoRunVars>>

ReturnScored ==
  /\ pc = "second_pass"
  /\ locals.preliminary_results = <<>>
  /\ ret' = <<FinalSort(locals.final_results)>>
  /\ pc' = "score_return"
  /\ UNCHANGED <<args, locals, NoRunVars>>

NextScore == GetScoreWeights \/ FirstPass \/ PenaltyStep \/ ReturnScored

SpecScore == InitScore /\ [][NextScore]_vars


(***************************************************************************)
(* Properties of scoring.                                                  *)
(***************************************************************************)
WeightKeys == {"frequency", "function", "match_bonus", "length_fit"}

\* the components that are available for the request
AvailableWeights(r) ==
  (IF r.language = KO THEN {"frequency"} ELSE {})
  \cup (IF r.language = KO /\ r.communicativeFunction # NoneVal
        THEN {"function"} ELSE {})
  \cup (IF r.therapyApproach # CORE_VOCABULARY THEN {"match_bonus"} ELSE {})
  \cup {"length_fit"}

\* C14: for every configuration of language, communicative function and
\* approach the weights of _get_score_weights are non-negative and sum to 1
\* (a weight is tenths / total, so the tenths sum to total), every
\* unavailable component has the weight 0, and the available ones keep the
\* proportions of the base weights 0.4 : 0.3 : 0.2 : 0.1.
C14_WeightsRenormalized ==
  pc = "weights_return" =>
    LET weights == ret[1][1]
        total   == ret[1][2]
    IN /\ total > 0
       /\ \A k \in WeightKeys : weights[k] >= 0
       /\ weights.frequency + weights.function + weights.match_bonus
            + weights.length_fit = total
       /\ \A k \in WeightKeys \ AvailableWeights(args.request) : weights[k] = 0
       /\ \A a, b \in AvailableWeights(args.request) :
            /\ weights[a] > 0
            /\ weights[a] * BASE_SCORE_WEIGHTS[b] = weights[b] * BASE_SCORE_WEIGHTS[a]

\* a Korean core_vocabulary request without a function: two components are
\* unavailable and the other two are rescaled
C14_Witness ==
  /\ pc = "weights_return"
  /\ args.request.language = KO
  /\ args.request.therapyApproach = CORE_VOCABULARY
  /\ args.request.communicativeFunction = NoneVal
  /\ ret[1][2] = 5
  /\ ret[1][1].frequency = 4
  /\ ret[1][1].length_fit = 1


FirstPassDone == pc = "second_pass" /\ locals.penalized = <<>>

\* the item with one more matched word
WithOneMoreMatch(item) ==
  [sentence |-> item.sentence,
   matched_words |-> Append(item.matched_words, T_jwo),
   word_count |-> item.word_count,
   difficulty |-> item.difficulty]

\* C15: for a fixed sentence and request the base score does not decrease
\* with the number of matched words: match_bonus is min(30 * count, 100), one
\* more matched word never lowers the base score, and it leaves the base
\* score as it is once the bonus has reached 100.
C15_BaseScoreMonotone ==
  FirstPassDone =>
    \A k \in 1..Len(locals.preliminary_results) :
      LET item  == locals.preliminary_results[k]
          count == Len(item.matched_words)
          more  == BaseScore(WithOneMoreMatch(item), args.request)
      IN /\ item.breakdown.match_bonus =
              100 * (IF 30 * count < 100 THEN 30 * count ELSE 100)
         /\ more >= item.base_score
         /\ item.breakdown.match_bonus = 10000 => more = item.base_score

\* a sentence with four matched words under a request that weighs the bonus:
\* the bonus is at its ceiling
C15_Witness ==
  /\ FirstPassDone
  /\ args.request.therapyApproach # CORE_VOCABULARY
  /\ \E k \in 1..Len(locals.preliminary_results) :
       /\ Len(locals.preliminary_results[k].matched_words) = 4
       /\ locals.preliminary_results[k].breakdown.match_bonus = 10000
       /\ BaseScore(WithOneMoreMatch(locals.preliminary_results[k]), args.request)
            = locals.preliminary_results[k].base_score


ScoreReturned == pc = "score_return"

\* what a ScoredSentence keeps of the validated item it was made from
InputOf(x) ==
  [sentence |-> x.sentence, matched_words |-> x.matched_words,
   word_count |-> x.word_count, difficulty |-> x.difficulty]

\* how often the item x occurs in the list
Occurrences(list, x) == Cardinality({k \in 1..Len(list) : InputOf(list[k]) = x})

\* the steps of score_sentences return what the function returns as a whole
ScoreStepsAgree ==
  ScoreReturned => ret[1] = score_sentences(args.validated, args.request)

\* C16: score_sentences returns one ScoredSentence for each validated input,
\* none dropped and none duplicated, in the order of the final score, the
\* highest first.
C16_PermutationSortedByScore ==
  ScoreReturned =>
    /\ Len(ret[1]) = Len(args.validated)
    /\ \A k \in 1..Len(args.validated) :
         Occurrences(ret[1], args.validated[k])
           = Occurrences(args.validated, args.validated[k])
    /\ \A k \in 1..(Len(ret[1]) - 1) : ret[1][k].score >= ret[1][k + 1].score

\* three inputs whose order by final score differs from the order in which
\* the second pass produced them
C16_Witness ==
  /\ ScoreReturned
  /\ Len(args.validated) = 3
  /\ ret[1] # locals.final_results
  /\ \E k \in 1..2 : locals.final_results[k].score < locals.final_results[k + 1].score


\* C17: for every candidate the diversity penalty that is subtracted from the
\* base score is at most 50 and the final score is not negative:
\* max(0, base - 50) <= final score <= base, whatever the penalty; the score
\* of the ScoredSentence is that final score rounded to two decimals.  The
\* scores of a step are kept times 100 * total weight.
C17_PenaltyCappedAndFloored ==
  pc \in {"second_pass", "score_return"} =>
    \A k \in 1..Len(locals.penalized) :
      LET p     == locals.penalized[k]
          unit  == 100 * _get_score_weights(args.request)[2]
          floor == IF p.base_score - 50 * unit > 0
                   THEN p.base_score - 50 * unit ELSE 0
      IN /\ p.base_score - p.final_score <= 50 * unit
         /\ p.final_score >= 0
         /\ floor <= p.final_score
         /\ p.final_score <= p.base_score
         /\ locals.final_results[k].score = Round2(p.final_score, unit)

\* a candidate whose penalty is over 50 and is cut to 50
C17_Witness ==
  /\ pc = "score_return"
  /\ \E k \in 1..Len(locals.penalized) :
       LET p == locals.penalized[k]
       IN /\ p.diversity_penalty > 50
          /\ p.final_score = p.base_score - 5000 * _get_score_weights(args.request)[2]
          /\ p.final_score > 0

\* a candidate whose penalty is over its base score and whose final score is 0
PenaltyOverBaseScore ==
  /\ pc = "score_return"
  /\ \E k \in 1..Len(locals.penalized) :
       LET p == locals.penalized[k]
       IN /\ p.base_score > 0
          /\ p.diversity_penalty * 100 * _get_score_weights(args.request)[2] > p.base_score
          /\ p.final_score = 0




(***************************************************************************)
(* diversify_results on its own, in steps: the early return, the          *)
(* iterations of the greedy loop, and the loop that tops the list up.      *)
(***************************************************************************)
ScoredSentence(sentence, matched_words, difficulty, score) ==
  [sentence |-> sentence, matched_words |-> matched_words,
   word_count |-> Len(Split(sentence)), difficulty |-> difficulty,
   score |-> score, breakdown |-> <<>>]

\* two sentences with the pattern "ramyeon", one with the pattern "nara" and
\* one without matched words; scores in hundredths
DiversifyPool ==
  {ScoredSentence(Join(<<T_ramyeoni, T_masisseoyo>>), <<T_ramyeoni>>, "easy", 9000),
   ScoredSentence(Join(<<T_igeo, T_ramyeoni, T_jwo>>), <<T_ramyeoni>>, "medium", 8800),
   ScoredSentence(Join(<<T_narareul, T_igeo, T_masisseoyo>>), <<T_narareul>>,
                  "easy", 8700),
   ScoredSentence(Join(<<T_igeo, T_jwo>>), <<>>, NoneVal, 8000)}

\* lists of LongCount + 1 sentences: the pool over and over, from each of
\* its sentences on, in the order of the scores
LongLists ==
  LET pool == SortDesc(<<>> \o [k \in 1..4 |->
                          CHOOSE x \in DiversifyPool :
                            Cardinality({y \in DiversifyPool : y.score > x.score}) = k - 1],
                       <<4, 3, 2, 1>>)
  IN {[i \in 1..(LongCount + 1) |-> pool[((i + from) % 4) + 1]] : from \in 0..3}

\* every short list with every count and max_similar, and the long lists
\* with the count LongCount
DiversifyInputs ==
  [scored      : SeqsUpTo(DiversifyPool, MaxScored),
   count       : 0..MaxSelect,
   max_similar : 0..MaxSimilar]
  \cup
  [scored      : LongLists,
   count       : {LongCount},
   max_similar : {MaxSimilar, LongCount}]

InitDiversify ==
  /\ pc = "diversify_call"
  /\ args \in DiversifyInputs
  /\ locals = <<>>
  /\ ret = <<>>
  /\ NoRun

EarlyReturn ==
  /\ pc = "diversify_call"
  /\ ReturnsAsIs(args.scored, args.count)
  /\ ret' = <<args.scored>>
  /\ pc' = "diversify_return"
  /\ UNCHANGED <<args, locals, NoRunVars>>

\* picks records, for each iteration that selected a candidate, its index
\* and the indexes selected before it
StartGreedy ==
  /\ pc = "diversify_call"
  /\ ~ReturnsAsIs(args.scored, args.count)
  /\ locals' = [candidate_keys |-> AllCandidateKeys(args.scored),
                selected |-> <<>>, selected_indexes |-> {}, iterations |-> 0,
                picks |-> <<>>, broke |-> FALSE]
  /\ pc' = "greedy"
  /\ UNCHANGED <<args, ret, NoRunVars>>

GreedyStep ==
  /\ pc = "greedy"
  /\ locals.iterations < args.count
  /\ LET best_idx == BestIdx(args.scored, locals.candidate_keys,
                             locals.selected_indexes, args.count, args.max_similar)
     IN /\ best_idx # 0
        /\ locals' =
             [candidate_keys |-> locals.candidate_keys,
              selected |-> Append(locals.selected, args.scored[best_idx]),
              selected_indexes |-> locals.selected_indexes \cup {best_idx},
              iterations |-> locals.iterations + 1,
              picks |-> Append(locals.picks,
                          [best_idx |-> best_idx,
                           before |-> locals.selected_indexes]),
              broke |-> FALSE]
  /\ UNCHANGED <<pc, args, ret, NoRunVars>>

GreedyBreak ==
  /\ pc = "greedy"
  /\ locals.iterations < args.count
  /\ BestIdx(args.scored, locals.candidate_keys, locals.selected_indexes,
             args.count, args.max_similar) = 0
  /\ locals' = [locals EXCEPT !.broke = TRUE]
  /\ pc' = "backfill"
  /\ UNCHANGED <<args, ret, NoRunVars>>

GreedyDone ==
  /\ pc = "greedy"
  /\ locals.iterations >= args.count
  /\ pc' = "backfill"
  /\ UNCHANGED <<args, locals, ret, NoRunVars>>

ReturnSelected ==
  /\ pc = "backfill"
  /\ ret' = <<Backfill(args.scored, locals.selected, locals.selected_indexes,
                       args.count)>>
  /\ pc' = "diversify_return"
  /\ UNCHANGED <<args, locals, NoRunVars>>

NextDiversify ==
  \/ EarlyReturn
  \/ StartGreedy
  \/ GreedyStep
  \/ GreedyBreak
  \/ GreedyDone
  \/ ReturnSelected

SpecDiversify == InitDiversify /\ [][NextDiversify]_vars

(***************************************************************************)
(* Properties of diversify_results.                                        *)
(***************************************************************************)
DiversifyReturned == pc = "diversify_return"

\* the greedy loop ran, and ended with fewer than count sentences
Backfilled ==
  /\ ~ReturnsAsIs(args.scored, args.count)
  /\ Len(locals.selected) < args.count

\* C18: for every scored list, every count n >= 0 and every max_similar,
\* diversify_results returns min(n, len(scored)) sentences.
C18_ReturnsMinOfCountAndLength ==
  DiversifyReturned =>
    Len(ret[1]) = IF args.count < Len(args.scored) THEN args.count
                  ELSE Len(args.scored)

\* the greedy loop ran out of candidates and the list was topped up to count
C18_Witness ==
  /\ DiversifyReturned
  /\ Backfilled
  /\ locals.broke
  /\ locals.selected # <<>>
  /\ Len(ret[1]) = args.count


\* how many sentences of the list have the pattern key
PatternOccurrences(list, key) ==
  Cardinality({k \in 1..Len(list) : _get_pattern(list[k]) = key})

\* C19: in every output of diversify_results on an input longer than count
\* no pattern key occurs more than max_similar times, unless the greedy loop
\* ran out of eligible candidates before it reached count and the remaining
\* places were topped up.
C19_PatternCapUnlessBackfilled ==
  (DiversifyReturned /\ Len(args.scored) > args.count) =>
    \/ \A k \in 1..Len(ret[1]) :
         PatternOccurrences(ret[1], _get_pattern(ret[1][k])) <= args.max_similar
    \/ locals.broke /\ Backfilled

\* the cap decided the output: the loop selected count sentences and passed
\* over a sentence whose pattern was full and whose score is higher than the
\* score of a selected one
C19_Witness ==
  /\ DiversifyReturned
  /\ Len(args.scored) > args.count
  /\ ~Backfilled
  /\ \E i \in 1..Len(args.scored) :
       /\ i \notin locals.selected_indexes
       /\ PatternOccurrences(ret[1], _get_pattern(args.scored[i])) = args.max_similar
       /\ \E j \in locals.selected_indexes :
            args.scored[j].score < args.scored[i].score
                                   - 100 * Penalty(locals.candidate_keys, i,
                                                   locals.selected_indexes, args.count)

\* C20: when the number of scored sentences is at most count,
\* diversify_results returns its input as it is: the same elements in the
\* same order, with no cap and no penalty applied.
C20_ShortInputReturnedAsIs ==
  (DiversifyReturned /\ Len(args.scored) <= args.count) => ret[1] = args.scored

\* a list of count sentences that is not in the order of its scores and has
\* more than max_similar sentences of one pattern
C20_Witness ==
  /\ DiversifyReturned
  /\ Len(args.scored) = args.count
  /\ args.max_similar >= 1
  /\ \E k \in 1..(Len(args.scored) - 1) : args.scored[k].score < args.scored[k + 1].score
  /\ \E k \in 1..Len(ret[1]) :
       PatternOccurrences(ret[1], _get_pattern(ret[1][k])) > args.max_similar
  /\ ret[1] = args.scored


\* the greedy loop is about to run an iteration
InGreedyIteration == pc = "greedy" /\ locals.iterations < args.count

\* how many of the selected sentences have the difficulty of the candidate
SelectedOfTier(idx) ==
  LET tier(x) == IF x.difficulty = NoneVal THEN "unknown" ELSE x.difficulty
  IN Cardinality({k \in 1..Len(locals.selected) :
                    tier(locals.selected[k]) = tier(args.scored[idx])})

TimesChosen(before, field, idx) ==
  Cardinality({k \in before :
                 locals.candidate_keys[k][field] = locals.candidate_keys[idx][field]})

\* the candidates that a pick could choose from
OpenToPick(before) ==
  {idx \in 1..Len(args.scored) :
     /\ idx \notin before
     /\ TimesChosen(before, "pattern", idx) < args.max_similar}

\* the adjusted score of a candidate at a pick, in hundredths
AdjustedAtPick(before, idx) ==
  args.scored[idx].score
    - 100 * (3 * TimesChosen(before, "start", idx)
             + 4 * TimesChosen(before, "ending", idx)
             + DifficultyPenalty(locals.candidate_keys, idx, before, args.count))

\* C22: in each greedy iteration the selected candidate is not yet selected,
\* has a pattern count below max_similar, and has the maximal adjusted score
\* (score - 3 x times its start key was chosen - 4 x times its ending key was
\* chosen - difficulty penalty) among such candidates; ties go to the lowest
\* input index.
C22_PickIsFirstBestOpenCandidate ==
  pc \in {"greedy", "backfill", "diversify_return"} /\ locals # <<>> =>
    \A k \in 1..Len(locals.picks) :
      LET best   == locals.picks[k].best_idx
          before == locals.picks[k].before
      IN /\ best \in OpenToPick(before)
         /\ \A idx \in OpenToPick(before) :
              \/ AdjustedAtPick(before, idx) < AdjustedAtPick(before, best)
              \/ /\ AdjustedAtPick(before, idx) = AdjustedAtPick(before, best)
                 /\ best <= idx

\* a pick that a tie decided, and a pick that went past a candidate with a
\* higher score because of its penalties
C22_Witness ==
  /\ pc = "backfill"
  /\ \E k \in 1..Len(locals.picks) :
       LET best   == locals.picks[k].best_idx
           before == locals.picks[k].before
       IN \E idx \in OpenToPick(before) :
            /\ idx > best
            /\ AdjustedAtPick(before, idx) = AdjustedAtPick(before, best)
  /\ \E k \in 1..Len(locals.picks) :
       LET best   == locals.picks[k].best_idx
           before == locals.picks[k].before
       IN \E idx \in OpenToPick(before) :
            args.scored[idx].score > args.scored[best].score


\* the input is in the order score_sentences returns it
SortedByScore(scored_list) ==
  \A i, j \in 1..Len(scored_list) : i < j => scored_list[i].score >= scored_list[j].score

\* the case of C23
GreedyOnSortedInput ==
  /\ SortedByScore(args.scored)
  /\ Len(args.scored) > args.count
  /\ args.count >= 1
  /\ args.max_similar >= 1

\* C23: for an input sorted by score descending and longer than count, with
\* count >= 1 and max_similar >= 1, the output contains the highest-scoring
\* input sentence, and it is the first one selected.
C23_TopSentenceSelectedFirst ==
  DiversifyReturned /\ GreedyOnSortedInput =>
    /\ Len(locals.picks) >= 1
    /\ locals.picks[1].best_idx = 1
    /\ ret[1][1] = args.scored[1]
    /\ \A idx \in 1..Len(args.scored) : ret[1][1].score >= args.scored[idx].score

\* a sorted list of different scores, from which more than one sentence was
\* selected and a later pick left the order of the scores
C23_Witness ==
  /\ DiversifyReturned
  /\ GreedyOnSortedInput
  /\ args.scored[1].score > args.scored[2].score
  /\ ret[1][1] = args.scored[1]
  /\ \E k \in 2..Len(ret[1]) : ret[1][k] # args.scored[k]


\* the k-th of the input positions that the greedy loop did not select
NthUnselected(k) ==
  CHOOSE idx \in 1..Len(args.scored) :
    /\ idx \notin locals.selected_indexes
    /\ Cardinality({i \in 1..idx : i \notin locals.selected_indexes}) = k

\* C24: when diversify_results runs out of eligible candidates before it has
\* selected count sentences, it fills the remaining slots with the candidates
\* not yet selected, in the order of the input, whatever their pattern counts
\* and penalties, and stops exactly at count.
C24_BackfillInInputOrderUpToCount ==
  DiversifyReturned /\ Backfilled =>
    LET n == Len(locals.selected)
    IN /\ Len(ret[1]) = args.count
       /\ SubSeq(ret[1], 1, n) = locals.selected
       /\ \A k \in 1..(args.count - n) :
            ret[1][n + k] = args.scored[NthUnselected(k)]

\* the loop selected the second sentence of the input only, and two slots
\* were filled with sentences of a pattern that had reached max_similar
C24_Witness ==
  /\ DiversifyReturned
  /\ Backfilled
  /\ locals.broke
  /\ locals.selected_indexes = {2}
  /\ args.count - Len(locals.selected) >= 2
  /\ args.max_similar >= 1
  /\ \A k \in 1..2 :
       TimesChosen(locals.selected_indexes, "pattern", NthUnselected(k))
         >= args.max_similar


\* how often an entry occurs in a list of scored sentences
EntryOccurrences(entry, scored_list) ==
  Cardinality({k \in 1..Len(scored_list) : scored_list[k] = entry})

\* the arguments as they were at the call do not change
InputUnmodified == [][args' = args]_vars

\* every entry of the output is an entry of the input, taken from input
\* positions that differ, and no pick repeats a position
SelectsEachPositionOnce ==
  DiversifyReturned =>
    /\ \A k \in 1..Len(ret[1]) :
         EntryOccurrences(ret[1][k], ret[1]) <= EntryOccurrences(ret[1][k], args.scored)
    /\ locals # <<>> =>
         /\ \A i, j \in 1..Len(locals.picks) :
              i # j => locals.picks[i].best_idx # locals.picks[j].best_idx
         /\ Cardinality(locals.selected_indexes) = Len(locals.selected)

\* C25: diversify_results selects every input position at most once across
\* the greedy and the backfill phase (the output is a sub-list of distinct
\* input entries), and leaves the input list and its entries unmodified.
C25_EachPositionOnceInputUnmodified ==
  []SelectsEachPositionOnce /\ InputUnmodified

\* a run with both phases: two picks, then a slot filled from the input
C25_Witness ==
  /\ DiversifyReturned
  /\ locals # <<>>
  /\ Len(locals.picks) >= 2
  /\ Len(ret[1]) > Len(locals.selected)
  /\ \E k \in 1..Len(args.scored) : EntryOccurrences(args.scored[k], args.scored) = 1


\* the penalty of a sentence against a list of sentences
PenaltyAgainst(sentence, others, language) ==
  SumSeq([j \in 1..Len(others) |->
            (IF _extract_sentence_structure(sentence, language)
                  = _extract_sentence_structure(others[j].sentence, language)
             THEN 10 ELSE 0)
            + 5 * Cardinality(_extract_nouns(sentence, language)
                                \cap _extract_nouns(others[j].sentence, language))])

\* the candidates that come before the k-th and count for its penalty
ComparedWith(k) ==
  SubSeq(locals.final_results, 1, IF k - 1 < 10 THEN k - 1 ELSE 10)

\* C26: score_sentences applies the diversity penalty in descending base-score
\* order: the candidate with the highest base score receives no penalty, and
\* the penalty of the k-th candidate is determined by the first
\* min(10, k - 1) candidates in that order, never by later or lower-ranked
\* ones.
C26_PenaltyInBaseScoreOrder ==
  pc \in {"second_pass", "score_return"} =>
    /\ \A k \in 1..Len(locals.penalized) :
         /\ \A j \in 1..(k - 1) :
              locals.penalized[j].base_score >= locals.penalized[k].base_score
         /\ locals.penalized[k].diversity_penalty =
              PenaltyAgainst(locals.final_results[k].sentence, ComparedWith(k),
                             args.request.language)
    /\ \A item \in {locals.preliminary_results[i] : i \in 1..Len(locals.preliminary_results)} :
         \A k \in 1..Len(locals.penalized) :
           locals.penalized[k].base_score >= item.base_score
    /\ Len(locals.penalized) >= 1 => locals.penalized[1].diversity_penalty = 0

\* more than eleven candidates were scored, and the eleventh, which has the
\* structure of the twelfth, added nothing to the penalty of the twelfth
C26_Witness ==
  /\ pc = "score_return"
  /\ Len(locals.penalized) >= 12
  /\ \E j \in 1..Len(locals.penalized) :
       locals.penalized[j].base_score > locals.penalized[12].base_score
  /\ PenaltyAgainst(locals.final_results[12].sentence,
                    <<locals.final_results[11]>>, args.request.language) > 0
  /\ locals.penalized[12].diversity_penalty =
       PenaltyAgainst(locals.final_results[12].sentence,
                      SubSeq(locals.final_results, 1, 10), args.request.language)


\* C27: at every attempt in which run_pipeline calls the generator, the batch
\* size requested is floor(1.5 x (3 x request.count - number of sentences
\* validated so far)), at least 1; no call is ever made with a zero or
\* negative batch size.
C27_BatchSizeIsFloorOfOneAndAHalfDeficits ==
  \A k \in 1..Len(calls) :
    LET missing == 3 * request.count - calls[k].validated_before
        size == calls[k].batch_size
    IN /\ 2 * size <= 3 * missing
       /\ 3 * missing < 2 * (size + 1)
       /\ size >= 1

\* a second call after some sentences had passed, for an odd number of
\* missing sentences, so that the half is dropped
C27_Witness ==
  /\ Len(calls) >= 2
  /\ calls[2].validated_before > 0
  /\ (3 * request.count - calls[2].validated_before) % 2 = 1
  /\ 2 * calls[2].batch_size < 3 * (3 * request.count - calls[2].validated_before)


\* how many of the returned items have the text
ItemsWithText(text) ==
  Cardinality({k \in 1..Len(result[1].items) : result[1].items[k].text = text})

\* how many passed validation results, of any attempt, have the sentence
PassedWithSentence(sentence) ==
  Cardinality({k \in 1..Len(all_validation_results) :
                 /\ all_validation_results[k].passed
                 /\ all_validation_results[k].sentence = sentence})

\* the returned items and the passed results are the same sentences, as
\* often, and generatedCount is their number
ItemsArePassedResults ==
  result # <<>> =>
    /\ \A k \in 1..Len(result[1].items) :
         ItemsWithText(result[1].items[k].text)
           = PassedWithSentence(result[1].items[k].text)
    /\ \A k \in 1..Len(all_validation_results) :
         all_validation_results[k].passed =>
           ItemsWithText(all_validation_results[k].sentence)
             = PassedWithSentence(all_validation_results[k].sentence)
    /\ Len(result[1].items) = result[1].meta.generatedCount
    /\ result[1].meta.generatedCount = PassedCount

\* scored is assigned by the step after the loop and by no other
ScoredOnceAfterLoop ==
  [][scored' # scored => pc = "score" /\ pc' = "assemble"]_vars

C29_ReasonExactlyOnFailure ==
  pc = "validate_return" =>
    \A k \in 1..Len(results) :
      /\ results[k].fail_reason = NoReason <=> results[k].passed
      /\ ~results[k].passed =>
           /\ results[k].fail_reason.code # NoneVal
           /\ results[k].fail_reason.code \in
                {"word_count", "phoneme", "semantic_repetition", "no_predicate",
                 "core_vocabulary", "other"}

\* a call with a passed sentence, which has no reason, and a failed one,
\* which has one
C29_Witness ==
  /\ pc = "validate_return"
  /\ \E i, j \in 1..Len(results) :
       /\ results[i].passed /\ results[i].fail_reason = NoReason
       /\ ~results[j].passed
       /\ results[j].fail_reason.code \in
            {"word_count", "phoneme", "semantic_repetition", "no_predicate",
             "core_vocabulary"}

\* the metrics of a finished run
Metrics == result[1].metrics

\* the entry of the fail_reasons histogram for a key, 0 without an entry
Histogram(key) ==
  IF key \in DOMAIN Metrics.fail_reasons THEN Metrics.fail_reasons[key] ELSE 0

HistogramSum ==
  Histogram("word_count") + Histogram("phoneme") + Histogram("semantic_repetition")
    + Histogram("no_predicate") + Histogram("core_vocabulary") + Histogram("other")

\* C30: in the metrics of every finished run, generated_count =
\* validation_passed + the sum of the fail_reasons histogram,
\* validation_passed = final_count, and validation_rate is between 0 and 100
\* (0 when nothing was generated).
C30_MetricsAddUp ==
  Returned =>
    /\ DOMAIN Metrics.fail_reasons \subseteq FailKeys
    /\ Metrics.generated_count = Metrics.validation_passed + HistogramSum
    /\ Metrics.validation_passed = Metrics.final_count
    /\ 0 <= Metrics.validation_rate[1]
    /\ Metrics.validation_rate[1] <= 100 * Metrics.validation_rate[2]
    /\ Metrics.validation_rate[2] > 0
    /\ Metrics.generated_count = 0 => Metrics.validation_rate[1] = 0

\* a run of two attempts in which sentences passed and sentences failed for
\* two different reasons
C30_Witness ==
  /\ Returned
  /\ Len(calls) >= 2
  /\ Metrics.validation_passed > 0
  /\ Cardinality(DOMAIN Metrics.fail_reasons) >= 2
  /\ Metrics.validation_rate[1] < 100 * Metrics.validation_rate[2]

\* a run in which nothing was generated
NothingGenerated == Returned /\ Metrics.generated_count = 0

=============================================================================
